---- MODULE Spec2Model ----
(***************************************************************************)
(* Model of the AMA content-generation workflow (backend/src/agent):       *)
(* request parser, error classifier, retry runner, the four stage          *)
(* subgraphs and the top-level LangGraph workflow.                         *)
(*                                                                         *)
(* Text is modelled as a sequence of one-character strings, so that        *)
(* lower-casing, substring search and the regular-expression substitution  *)
(* of the parser are computed the way the Python code computes them.       *)
(***************************************************************************)
EXTENDS Integers, Sequences, FiniteSets, TLC

(***************************************************************************)
(* Bounds of the model.                                                    *)
(***************************************************************************)
\* Largest value of Configuration.max_retries that is explored.
MaxRetriesBound == 3

\* Longest user input built from InputTokens, in tokens.
MaxTokens == 3

\* How many times the parser is applied to its own prompt, the first parse
\* included.
MaxParses == 2

\* Longest error message built from MessageTokens, in tokens.
MaxMessageTokens == 2

(***************************************************************************)
(* Python values.                                                          *)
(***************************************************************************)
\* Python's None for the fields that hold text as a character sequence.
NoneVal == <<"<None>">>

\* Python's None for the fields whose text is never inspected.
NONE == "<None>"

\* str(x) with None turned into the empty string.
PyStrNoneAsEmpty(x) == IF x = NoneVal THEN <<>> ELSE x

\* str(x) for x a character sequence or None.
PyStr(x) == IF x = NoneVal THEN <<"N","o","n","e">> ELSE x

\* Truthiness of an optional text field: None and "" are falsy.
Truthy(x) == x # NONE /\ x # ""

UpperCase == <<"A","B","C","D","E","F","G","H","I","J","K","L","M","N","O","P","Q","R","S","T","U","V","W","X","Y","Z">>

LowerCase == <<"a","b","c","d","e","f","g","h","i","j","k","l","m","n","o","p","q","r","s","t","u","v","w","x","y","z">>

DigitsAndUnderscore == {"0","1","2","3","4","5","6","7","8","9","_"}

\* str.lower() on one character.
LowerChar(c) ==
    IF \E i \in 1..26 : UpperCase[i] = c
    THEN LowerCase[CHOOSE i \in 1..26 : UpperCase[i] = c]
    ELSE c

\* str.lower()
Lower(s) == [i \in 1..Len(s) |-> LowerChar(s[i])]

\* The regular expression class \w.
IsWordChar(c) ==
    \/ \E i \in 1..26 : UpperCase[i] = c \/ LowerCase[i] = c
    \/ c \in DigitsAndUnderscore

\* The regular expression class \s (and what str.strip() removes).
IsSpace(c) == c \in {" ", "\t", "\n"}

\* kw occurs in s starting at position i.
OccursAt(kw, s, i) ==
    /\ i + Len(kw) - 1 <= Len(s)
    /\ \A j \in 1..Len(kw) : s[i + j - 1] = kw[j]

\* Python's `kw in s` for strings.
Contains(kw, s) == \E i \in 1..(Len(s) + 1) : OccursAt(kw, s, i)

\* Python's any(k in msg for k in kws), kws a sequence of keywords.
AnyIn(kws, s) == \E n \in 1..Len(kws) : Contains(kws[n], s)

(***************************************************************************)
(* tools/error_classification.py                                           *)
(***************************************************************************)
NetworkKeywords ==
    << <<"t","i","m","e","o","u","t">>,
       <<"c","o","n","n","e","c","t","i","o","n">>,
       <<"n","e","t","w","o","r","k">> >>

ApiKeywords ==
    << <<"4","2","9">>,
       <<"r","a","t","e"," ","l","i","m","i","t">>,
       <<"q","u","o","t","a">>,
       <<"a","p","i"," ","k","e","y">>,
       <<"u","n","a","u","t","h","o","r","i","z","e","d">> >>

ValidationKeywords ==
    << <<"i","n","v","a","l","i","d">>,
       <<"m","i","s","s","i","n","g">>,
       <<"r","e","q","u","i","r","e","d">>,
       <<"v","a","l","i","d","a","t","i","o","n">> >>

\* The generation keywords without "blocked".
GenerationKeywordsWithoutBlocked ==
    << <<"e","m","p","t","y"," ","r","e","s","p","o","n","s","e">>,
       <<"g","e","n","e","r","a","t","i","o","n">> >>

GenerationKeywords ==
    << <<"e","m","p","t","y"," ","r","e","s","p","o","n","s","e">>,
       <<"b","l","o","c","k","e","d">>,
       <<"g","e","n","e","r","a","t","i","o","n">> >>

\* _classify_error with a rule of its own for one stage: what the
\* description writer fails on is never retried.
ClassifyErrorByContext(error_message, context) ==
    LET msg == Lower(error_message) IN
    IF context = "description_writer"
    THEN [error_type |-> "generation", is_retryable |-> FALSE, retry_delay_seconds |-> 0,
          suggestion |-> "Model generation issue, retry once."]
    ELSE IF AnyIn(NetworkKeywords, msg)
    THEN [error_type |-> "network", is_retryable |-> TRUE, retry_delay_seconds |-> 5,
          suggestion |-> "Network issue, retry later."]
    ELSE IF AnyIn(ApiKeywords, msg)
    THEN [error_type |-> "api", is_retryable |-> TRUE, retry_delay_seconds |-> 60,
          suggestion |-> "API limit or auth issue, wait and retry."]
    ELSE IF AnyIn(ValidationKeywords, msg)
    THEN [error_type |-> "validation", is_retryable |-> FALSE, retry_delay_seconds |-> 0,
          suggestion |-> "Fix input before retry."]
    ELSE IF AnyIn(GenerationKeywords, msg)
    THEN [error_type |-> "generation", is_retryable |-> TRUE, retry_delay_seconds |-> 2,
          suggestion |-> "Model generation issue, retry once."]
    ELSE [error_type |-> "unknown", is_retryable |-> TRUE, retry_delay_seconds |-> 3,
          suggestion |-> "Unknown error, retry once then stop."]

\* _classify_error with the validation rule tested before the network rule.
ClassifyErrorValidationFirst(error_message, context) ==
    LET msg == Lower(error_message) IN
    IF AnyIn(ValidationKeywords, msg)
    THEN [error_type |-> "validation", is_retryable |-> FALSE, retry_delay_seconds |-> 0,
          suggestion |-> "Fix input before retry."]
    ELSE IF AnyIn(NetworkKeywords, msg)
    THEN [error_type |-> "network", is_retryable |-> TRUE, retry_delay_seconds |-> 5,
          suggestion |-> "Network issue, retry later."]
    ELSE IF AnyIn(ApiKeywords, msg)
    THEN [error_type |-> "api", is_retryable |-> TRUE, retry_delay_seconds |-> 60,
          suggestion |-> "API limit or auth issue, wait and retry."]
    ELSE IF AnyIn(GenerationKeywords, msg)
    THEN [error_type |-> "generation", is_retryable |-> TRUE, retry_delay_seconds |-> 2,
          suggestion |-> "Model generation issue, retry once."]
    ELSE [error_type |-> "unknown", is_retryable |-> TRUE, retry_delay_seconds |-> 3,
          suggestion |-> "Unknown error, retry once then stop."]

\* _classify_error(error_message, context)
ClassifyError(error_message, context) ==
    LET msg == Lower(error_message) IN
    IF AnyIn(NetworkKeywords, msg)
    THEN [error_type |-> "network", is_retryable |-> TRUE, retry_delay_seconds |-> 5,
          suggestion |-> "Network issue, retry later."]
    ELSE IF AnyIn(ApiKeywords, msg)
    THEN [error_type |-> "api", is_retryable |-> TRUE, retry_delay_seconds |-> 60,
          suggestion |-> "API limit or auth issue, wait and retry."]
    ELSE IF AnyIn(ValidationKeywords, msg)
    THEN [error_type |-> "validation", is_retryable |-> FALSE, retry_delay_seconds |-> 0,
          suggestion |-> "Fix input before retry."]
    ELSE IF AnyIn(GenerationKeywords, msg)
    THEN [error_type |-> "generation", is_retryable |-> TRUE, retry_delay_seconds |-> 2,
          suggestion |-> "Model generation issue, retry once."]
    ELSE [error_type |-> "unknown", is_retryable |-> TRUE, retry_delay_seconds |-> 3,
          suggestion |-> "Unknown error, retry once then stop."]

(***************************************************************************)
(* tools/user_request_parser.py                                            *)
(***************************************************************************)
AudioKeywords ==
    << <<"a","u","d","i","o">>, <<"v","o","i","c","e">>,
       <<"s","p","e","e","c","h">>, <<"t","t","s">> >>

ImageKeywords ==
    << <<"i","m","a","g","e">>, <<"p","h","o","t","o">>,
       <<"p","i","c","t","u","r","e">>, <<"a","r","t">> >>

VideoKeywords ==
    << <<"v","i","d","e","o">>, <<"c","l","i","p">>,
       <<"a","n","i","m","a","t","i","o","n">> >>

\* The alternation of the stripping pattern, in the order it is written.
StripKeywords == AudioKeywords \o ImageKeywords \o VideoKeywords

\* \b at the gap before position i of s (i in 1..Len(s)+1).
WordBoundary(s, i) ==
    LET before == IF i > 1 THEN IsWordChar(s[i - 1]) ELSE FALSE
        after  == IF i <= Len(s) THEN IsWordChar(s[i]) ELSE FALSE
    IN  before # after

\* The pattern without its closing \b: \b(kw1|kw2|...).
KeywordsAtLeadingBoundaryOnly(s, i) ==
    { n \in 1..Len(StripKeywords) :
        /\ WordBoundary(s, i)
        /\ OccursAt(StripKeywords[n], Lower(s), i) }

\* The pattern without \b on either side: (kw1|kw2|...).
KeywordsAtAnywhere(s, i) ==
    { n \in 1..Len(StripKeywords) : OccursAt(StripKeywords[n], Lower(s), i) }

\* The alternatives of \b(kw1|kw2|...)\b that match s at position i (re.I).
KeywordsAt(s, i) ==
    { n \in 1..Len(StripKeywords) :
        /\ WordBoundary(s, i)
        /\ OccursAt(StripKeywords[n], Lower(s), i)
        /\ WordBoundary(s, i + Len(StripKeywords[n])) }

RECURSIVE StripFrom(_, _)
\* re.sub(r"\b(audio|...|animation)\b", "", s, flags=re.I), scanning from i.
StripFrom(s, i) ==
    IF i > Len(s) THEN <<>>
    ELSE IF KeywordsAt(s, i) # {}
    THEN LET n == CHOOSE k \in KeywordsAt(s, i) : \A m \in KeywordsAt(s, i) : k <= m
         IN  StripFrom(s, i + Len(StripKeywords[n]))
    ELSE <<s[i]>> \o StripFrom(s, i + 1)

RECURSIVE CollapseFrom(_, _)
\* re.sub(r"\s+", " ", s), scanning from i.
CollapseFrom(s, i) ==
    IF i > Len(s) THEN <<>>
    ELSE IF IsSpace(s[i])
    THEN IF i > 1 /\ IsSpace(s[i - 1])
         THEN CollapseFrom(s, i + 1)
         ELSE <<" ">> \o CollapseFrom(s, i + 1)
    ELSE <<s[i]>> \o CollapseFrom(s, i + 1)

\* str.strip()
Strip(s) ==
    LET keep == { i \in 1..Len(s) : ~IsSpace(s[i]) } IN
    IF keep = {} THEN <<>>
    ELSE LET lo == CHOOSE i \in keep : \A j \in keep : i <= j
             hi == CHOOSE i \in keep : \A j \in keep : i >= j
         IN  SubSeq(s, lo, hi)

\* The modality scan with the three tests chained by elif.
ParseModalitiesFirstMatch(user_input) ==
    LET text == Lower(user_input) IN
    IF AnyIn(AudioKeywords, text) THEN <<"audio">>
    ELSE IF AnyIn(ImageKeywords, text) THEN <<"image">>
    ELSE IF AnyIn(VideoKeywords, text) THEN <<"video">>
    ELSE <<"image", "audio">>

\* The modality scan without the default.
ParseModalitiesNoDefault(user_input) ==
    LET text == Lower(user_input)
        a == IF AnyIn(AudioKeywords, text) THEN <<"audio">> ELSE <<>>
        i == IF AnyIn(ImageKeywords, text) THEN <<"image">> ELSE <<>>
        v == IF AnyIn(VideoKeywords, text) THEN <<"video">> ELSE <<>>
    IN  a \o i \o v

\* The modality scan over the input as given, not lower-cased.
ParseModalitiesCaseSensitive(user_input) ==
    LET a == IF AnyIn(AudioKeywords, user_input) THEN <<"audio">> ELSE <<>>
        i == IF AnyIn(ImageKeywords, user_input) THEN <<"image">> ELSE <<>>
        v == IF AnyIn(VideoKeywords, user_input) THEN <<"video">> ELSE <<>>
        found == a \o i \o v
    IN  IF found = <<>> THEN <<"image", "audio">> ELSE found

\* The modality list of _parse_user_request, in the order it is built.
ParseModalities(user_input) ==
    LET text == Lower(user_input)
        a == IF AnyIn(AudioKeywords, text) THEN <<"audio">> ELSE <<>>
        i == IF AnyIn(ImageKeywords, text) THEN <<"image">> ELSE <<>>
        v == IF AnyIn(VideoKeywords, text) THEN <<"video">> ELSE <<>>
        found == a \o i \o v
    IN  IF found = <<>> THEN <<"image", "audio">> ELSE found

\* The prompt of _parse_user_request.
ParsePrompt(user_input) ==
    LET cleaned == Strip(CollapseFrom(StripFrom(user_input, 1), 1))
    IN  IF cleaned = <<>> THEN user_input ELSE cleaned

\* _parse_user_request(user_input)
ParseUserRequest(user_input) ==
    [prompt |-> ParsePrompt(user_input),
     requested_modalities |-> ParseModalities(user_input)]

\* x in list
InList(x, list) == \E n \in 1..Len(list) : list[n] = x

(***************************************************************************)
(* Inputs of one request.                                                  *)
(***************************************************************************)
\* Error texts a worker can report: a network error, a validation error and
\* the empty-or-blocked model response every worker raises on response.text
\* being None.
WorkerErrors ==
    { <<"c","o","n","n","e","c","t","i","o","n"," ","t","i","m","e","o","u","t">>,
      <<"I","n","v","a","l","i","d"," ","i","n","p","u","t">>,
      <<"M","o","d","e","l"," ","r","e","s","p","o","n","s","e"," ","w","a","s"," ","e","m","p","t","y"," ","o","r"," ","b","l","o","c","k","e","d"," ","b","y"," ","s","a","f","e","t","y"," ","f","i","l","t","e","r","s",".">> }

\* The user_prompt values a run can start with: absent, empty, and requests
\* that name audio and video, audio only (all of it keywords), image, image
\* by substring only, nothing, video only, audio and image.
UserPrompts ==
    { NoneVal,
      <<>>,
      <<"m","a","k","e"," ","m","e"," ","a"," ","s","h","o","r","t"," ","a","u","d","i","o"," ","c","l","i","p"," ","a","b","o","u","t"," ","c","o","u","r","a","g","e">>,
      <<"v","o","i","c","e"," ","s","p","e","e","c","h">>,
      <<"s","u","n","s","e","t"," ","p","h","o","t","o">>,
      <<"p","a","r","t","y"," ","t","i","m","e","!">>,
      <<"a"," ","b","r","a","v","e"," ","c","a","t">>,
      <<"a","n","i","m","a","t","i","o","n","!">>,
      <<"t","t","s"," ","p","i","c","t","u","r","e">> }

\* payload.modalities or ["audio", "image"] in generate().
CallerModalities == { <<"audio", "image">>, <<"video">> }

Stages == {"prompt", "audio", "image", "description"}

\* The context tag each stage subgraph passes to the runner.
Context(s) ==
    CASE s = "prompt" -> "prompt_enhancer"
      [] s = "audio" -> "audio_generator"
      [] s = "image" -> "image_generator"
      [] s = "description" -> "description_writer"

\* What a successful worker's output mapping can hold: the keys the stage
\* reads, or none of them (the text workers return whatever JSON the model
\* produced; the audio and image workers build the mapping themselves).
OutputKinds(s) ==
    IF s \in {"prompt", "description"} THEN {"full", "nokeys"} ELSE {"full"}

VARIABLES
    max_retries,    \* Configuration.max_retries
    state,          \* OverallState of the request
    step,           \* superstep of the top-level graph
    pc,             \* per stage: where its node / retry runner stands
    attempt,        \* per stage: the runner's local `attempt`
    last_error,     \* per stage: the runner's local `last_error`
    result,         \* per stage: what the stage subgraph returned
    patch,          \* per stage: the patch its node returned, not yet merged
    log             \* per stage: history of the stage, in order: "enter"
                    \* (the node delegates to its subgraph), "worker_ok",
                    \* "worker_failed", "classify_retry", "classify_stop"
                    \* (the classifier's answer between attempts), "sleep",
                    \* "classify_final"
VARIABLE
    outcome         \* per stage: how the last worker.process() call ended
                    \* ("success", or "failure": success=False or an
                    \* exception) and the error text it gave
VARIABLE
    call            \* a tool invoked on its own (tool.invoke(args)): the
                    \* tool, its arguments and what each invocation returned
VARIABLE
    publish         \* a call of a publish endpoint of app.py: the platform,
                    \* the request, where the handler stands, its locals,
                    \* the clock, the Graph API round trips made so far and
                    \* the response

vars == <<publish, call, outcome, max_retries, state, step, pc, attempt, last_error, result, patch, log>>

\* A node patch that does not hold the key.
NoKey == "<no key>"

\* No tool is invoked on its own.
NoCall == [tool |-> "none", args |-> <<>>, outputs |-> <<>>]

\* No publish endpoint has been called.
NoPublish == [platform |-> "none"]

\* worker.process() has not been called.
NoOutcome == [ended |-> "none", error |-> NoneVal]

\* The runner has not returned.
NoResult ==
    [status |-> "none", output |-> NONE, error |-> NoneVal,
     error_type |-> NONE, suggestion |-> NONE]

Init ==
    /\ publish = NoPublish
    /\ call = NoCall
    /\ outcome = [s \in Stages |-> NoOutcome]
    /\ max_retries \in 0..MaxRetriesBound
    /\ \E up \in UserPrompts, rm \in CallerModalities :
         state = [user_prompt |-> up,
                  requested_modalities |-> rm,
                  enhanced_prompt |-> NONE,
                  main_statement |-> NONE,
                  audio_path |-> NONE,
                  image_path |-> NONE,
                  video_path |-> NONE,
                  description |-> NONE,
                  hashtags |-> NONE,
                  status |-> "pending",
                  errors |-> <<>>]
    /\ step = "parse_request"
    /\ pc = [s \in Stages |-> "idle"]
    /\ attempt = [s \in Stages |-> 0]
    /\ last_error = [s \in Stages |-> NoneVal]
    /\ result = [s \in Stages |-> NoResult]
    /\ patch = [s \in Stages |-> NoKey]
    /\ log = [s \in Stages |-> <<>>]

(***************************************************************************)
(* agent/utils.py: run_worker_with_error_handling, one action per step     *)
(* between two awaits or calls of a collaborator.                          *)
(***************************************************************************)
\* A stage runs only while no other stage is in its delay: the delay taken
\* with time.sleep, which holds the event loop.
RunningUnlessSleeping(s) ==
    /\ CASE s = "prompt" -> step = "prompt_subgraph"
         [] s \in {"audio", "image"} -> step = "branches"
         [] s = "description" -> step = "description_subgraph"
    /\ \A t \in {"prompt", "audio", "image", "description"} \ {s} : pc[t] # "sleep"

\* The stage whose node is running in the current superstep.
Running(s) ==
    CASE s = "prompt" -> step = "prompt_subgraph"
      [] s \in {"audio", "image"} -> step = "branches"
      [] s = "description" -> step = "description_subgraph"

\* The while test written as attempt <= max_retries.
LoopTestOffByOne(n, max) == n <= max

\* The while test: attempt < max_retries.
LoopTest(n, max) == n < max

\* The test before the classifier written as attempt <= max_retries.
AfterFailureOffByOne(n, max) == IF n <= max THEN "classify" ELSE "loop"

\* The runner going straight to the next attempt, without the classifier.
AfterFailureNoClassify(n, max) == "loop"

\* Where the runner goes after a failed attempt, `attempt` already incremented:
\* to the classifier if attempts remain, else back to the loop test.
AfterFailure(n, max) == IF n < max THEN "classify" ELSE "loop"

\* The runner without its `break`: it sleeps whatever the classifier said.
AfterClassificationAlwaysSleep(c) == "sleep"

\* Where the runner goes after the classifier answered between attempts:
\* break if the error is not retryable, else sleep.
AfterClassification(c) == IF ~c.is_retryable THEN "final" ELSE "sleep"

\* The while test passes and worker.process() returns success: the runner
\* returns at once.
WorkerSucceeds(s) ==
    /\ Running(s) /\ pc[s] = "loop"
    /\ LoopTest(attempt[s], max_retries)
    /\ \E kind \in OutputKinds(s) :
         result' = [result EXCEPT ![s] =
                      [status |-> "completed", output |-> kind, error |-> NoneVal,
                       error_type |-> NONE, suggestion |-> NONE]]
    /\ log' = [log EXCEPT ![s] = Append(@, "worker_ok")]
    /\ pc' = [pc EXCEPT ![s] = "returned"]
    /\ outcome' = [outcome EXCEPT ![s] = [ended |-> "success", error |-> NoneVal]]
    /\ UNCHANGED <<publish, call, max_retries, state, step, attempt, last_error, patch>>

\* A failed attempt that keeps the first error recorded instead of the last.
RecordFailureKeepFirst(s, e) ==
    /\ last_error' = [last_error EXCEPT ![s] = IF @ = NoneVal THEN e ELSE @]
    /\ log' = [log EXCEPT ![s] = Append(@, "worker_failed")]
    /\ attempt' = [attempt EXCEPT ![s] = @ + 1]
    /\ pc' = [pc EXCEPT ![s] = AfterFailure(attempt[s] + 1, max_retries)]
    /\ UNCHANGED <<publish, call, max_retries, state, step, result, patch>>

\* A failed attempt: the error text is recorded and the attempt is used up.
RecordFailure(s, e) ==
    /\ last_error' = [last_error EXCEPT ![s] = e]
    /\ log' = [log EXCEPT ![s] = Append(@, "worker_failed")]
    /\ attempt' = [attempt EXCEPT ![s] = @ + 1]
    /\ pc' = [pc EXCEPT ![s] = AfterFailure(attempt[s] + 1, max_retries)]
    /\ UNCHANGED <<publish, call, max_retries, state, step, result, patch>>

\* The while test passes and worker.process() returns success=False.
WorkerFails(s) ==
    /\ Running(s) /\ pc[s] = "loop"
    /\ LoopTest(attempt[s], max_retries)
    /\ \E e \in WorkerErrors :
         /\ RecordFailure(s, e)
         /\ outcome' = [outcome EXCEPT ![s] = [ended |-> "failure", error |-> e]]

\* worker.process() raises and the runner does not catch it: the exception
\* leaves the runner, no attempt is counted and no error recorded.
WorkerRaisesUncaught(s) ==
    /\ Running(s) /\ pc[s] = "loop"
    /\ LoopTest(attempt[s], max_retries)
    /\ pc' = [pc EXCEPT ![s] = "raised"]
    /\ UNCHANGED <<publish, call, outcome, max_retries, state, step, attempt, last_error, result, patch, log>>

\* The while test passes and worker.process() raises: last_error = str(e).
WorkerRaises(s) ==
    /\ Running(s) /\ pc[s] = "loop"
    /\ LoopTest(attempt[s], max_retries)
    /\ \E e \in WorkerErrors :
         /\ RecordFailure(s, PyStr(e))
         /\ outcome' = [outcome EXCEPT ![s] = [ended |-> "failure", error |-> e]]

\* The while test fails: the loop is left for the final classification.
LoopExit(s) ==
    /\ Running(s) /\ pc[s] = "loop"
    /\ ~LoopTest(attempt[s], max_retries)
    /\ pc' = [pc EXCEPT ![s] = "final"]
    /\ UNCHANGED <<publish, call, outcome, max_retries, state, step, attempt, last_error, result, patch, log>>

\* error_classifier.invoke(...) between two attempts.
ClassifyBetweenAttempts(s) ==
    /\ Running(s) /\ pc[s] = "classify"
    /\ LET c == ClassifyError(PyStr(last_error[s]), Context(s)) IN
         /\ log' = [log EXCEPT ![s] =
                      Append(@, IF c.is_retryable THEN "classify_retry" ELSE "classify_stop")]
         /\ pc' = [pc EXCEPT ![s] = AfterClassification(c)]
    /\ UNCHANGED <<publish, call, outcome, max_retries, state, step, attempt, last_error, result, patch>>

\* A delay that never ends.
SleepNeverReturns(s) ==
    /\ Running(s) /\ pc[s] = "sleep"
    /\ UNCHANGED <<publish, call, outcome, max_retries, state, step, pc, attempt, last_error, result, patch, log>>

\* await asyncio.sleep(retry_delay), then the next round of the loop.
Sleep(s) ==
    /\ Running(s) /\ pc[s] = "sleep"
    /\ log' = [log EXCEPT ![s] = Append(@, "sleep")]
    /\ pc' = [pc EXCEPT ![s] = "loop"]
    /\ UNCHANGED <<publish, call, outcome, max_retries, state, step, attempt, last_error, result, patch>>

\* The failed result the runner builds from the final classification c.
FailedResult(e, c) ==
    [status |-> "failed", output |-> NONE, error |-> PyStr(e),
     error_type |-> c.error_type, suggestion |-> c.suggestion]

\* The classification after the loop, and the failed result built from it.
ClassifyFinal(s) ==
    /\ Running(s) /\ pc[s] = "final"
    /\ log' = [log EXCEPT ![s] = Append(@, "classify_final")]
    /\ result' = [result EXCEPT ![s] =
                    FailedResult(last_error[s],
                                 ClassifyError(PyStr(last_error[s]), Context(s)))]
    /\ pc' = [pc EXCEPT ![s] = "returned"]
    /\ UNCHANGED <<publish, call, outcome, max_retries, state, step, attempt, last_error, patch>>

(***************************************************************************)
(* agent/subgraphs.py: what each stage subgraph's ainvoke() returns, read  *)
(* the way its node reads it (result.get(key): None when the key is not    *)
(* in the subgraph's final state).                                         *)
(***************************************************************************)
\* The subgraph without its validation of the required field.
ValidateRequiredFieldsSkipped(value) == TRUE

\* validate_required_fields(data, [field]) for the one required field.
ValidateRequiredFields(value) == value # NONE

\* output.get(key, "") of a completed runner result.
OutputGet(r, text) == IF r.output = "full" THEN text ELSE ""

\* The errors list of a subgraph that did not complete: the missing-field
\* message, or the runner's suggestion.
SubgraphErrors(valid, r) ==
    IF ~valid THEN <<"Missing required fields">> ELSE <<r.suggestion>>

\* build_prompt_subgraph._run
PromptSubgraph(valid, r) ==
    IF valid /\ r.status = "completed"
    THEN [enhanced_prompt |-> OutputGet(r, "enhanced prompt"),
          main_statement |-> OutputGet(r, "main statement"),
          status |-> "completed", errors |-> <<>>]
    ELSE [enhanced_prompt |-> NONE, main_statement |-> NONE,
          status |-> "failed", errors |-> SubgraphErrors(valid, r)]

\* build_audio_subgraph._run
AudioSubgraph(valid, r) ==
    IF valid /\ r.status = "completed"
    THEN [audio_path |-> OutputGet(r, "outputs/audio/audio_1.mp3"),
          status |-> "completed", errors |-> <<>>]
    ELSE [audio_path |-> NONE, status |-> "failed", errors |-> SubgraphErrors(valid, r)]

\* build_image_subgraph._run
ImageSubgraph(valid, r) ==
    IF valid /\ r.status = "completed"
    THEN [image_path |-> OutputGet(r, "outputs/images/image_1.png"),
          status |-> "completed", errors |-> <<>>]
    ELSE [image_path |-> NONE, status |-> "failed", errors |-> SubgraphErrors(valid, r)]

\* build_description_subgraph._run
DescriptionSubgraph(valid, r) ==
    IF valid /\ r.status = "completed"
    THEN [description |-> OutputGet(r, "description text"),
          hashtags |-> OutputGet(r, "hashtags"),
          status |-> "completed", errors |-> <<>>]
    ELSE [description |-> NONE, hashtags |-> NONE,
          status |-> "failed", errors |-> SubgraphErrors(valid, r)]

(***************************************************************************)
(* agent/nodes.py and agent/graph.py: the nodes of the top-level graph.    *)
(* The graph runs in supersteps: parse_request, prompt_subgraph, then      *)
(* audio_subgraph and image_subgraph together, then description_subgraph,  *)
(* then END. A node that raises aborts the run.                            *)
(***************************************************************************)
\* A stage subgraph starts: it validates its required field and enters the
\* runner with attempt = 0 and last_error = None.
EnterSubgraph(s, required) ==
    /\ pc' = [pc EXCEPT ![s] = IF ValidateRequiredFields(required) THEN "loop" ELSE "invalid"]
    /\ attempt' = [attempt EXCEPT ![s] = 0]
    /\ last_error' = [last_error EXCEPT ![s] = NoneVal]
    /\ log' = [log EXCEPT ![s] = Append(@, "enter")]

\* parse_request_node without its test of user_prompt.
ParseRequestNodeUnchecked ==
    /\ step = "parse_request"
    /\ LET parsed == ParseUserRequest(state.user_prompt) IN
         state' = [state EXCEPT !.user_prompt = parsed.prompt,
                                !.requested_modalities = parsed.requested_modalities,
                                !.status = "running"]
    /\ step' = "prompt_subgraph"
    /\ UNCHANGED <<publish, call, outcome, max_retries, pc, attempt, last_error, result, patch, log>>

\* parse_request_node leaving the caller's requested_modalities in place.
ParseRequestNodeKeepingModalities ==
    /\ step = "parse_request"
    /\ IF state.user_prompt = NoneVal \/ state.user_prompt = <<>>
       THEN /\ step' = "aborted"
            /\ UNCHANGED state
       ELSE /\ LET parsed == ParseUserRequest(state.user_prompt) IN
                 state' = [state EXCEPT !.user_prompt = parsed.prompt,
                                        !.status = "running"]
            /\ step' = "prompt_subgraph"
    /\ UNCHANGED <<publish, call, outcome, max_retries, pc, attempt, last_error, result, patch, log>>

\* parse_request_node
ParseRequestNode ==
    /\ step = "parse_request"
    /\ IF state.user_prompt = NoneVal \/ state.user_prompt = <<>>
       THEN /\ step' = "aborted"
            /\ UNCHANGED state
       ELSE /\ LET parsed == ParseUserRequest(state.user_prompt) IN
                 state' = [state EXCEPT !.user_prompt = parsed.prompt,
                                        !.requested_modalities = parsed.requested_modalities,
                                        !.status = "running"]
            /\ step' = "prompt_subgraph"
    /\ UNCHANGED <<publish, call, outcome, max_retries, pc, attempt, last_error, result, patch, log>>

\* make_prompt_subgraph_node._node, up to the first await inside the runner.
PromptNodeStart ==
    /\ step = "prompt_subgraph" /\ pc["prompt"] = "idle"
    /\ IF state.user_prompt = NoneVal \/ state.user_prompt = <<>>
       THEN /\ step' = "aborted"
            /\ UNCHANGED <<pc, attempt, last_error, log>>
       ELSE /\ EnterSubgraph("prompt", "input_prompt")
            /\ UNCHANGED step
    /\ UNCHANGED <<publish, call, outcome, max_retries, state, result, patch>>

\* make_prompt_subgraph_node._node, from the subgraph's return: the patch is
\* merged and the graph moves on to the two branches.
PromptNodeReturn ==
    /\ step = "prompt_subgraph" /\ pc["prompt"] \in {"returned", "invalid"}
    /\ LET sub == PromptSubgraph(pc["prompt"] = "returned", result["prompt"]) IN
         state' = [state EXCEPT !.enhanced_prompt = sub.enhanced_prompt,
                                !.main_statement = sub.main_statement]
    /\ pc' = [pc EXCEPT !["prompt"] = "done"]
    /\ step' = "branches"
    /\ UNCHANGED <<publish, call, outcome, max_retries, attempt, last_error, result, patch, log>>

\* The two branch nodes testing for each other's modality.
ModalitySwapped(s) == IF s = "audio" THEN "image" ELSE "audio"

\* The modality a branch stage serves.
Modality(s) == IF s = "audio" THEN "audio" ELSE "image"

\* make_audio_subgraph_node._node and make_image_subgraph_node._node, up to
\* the first await inside the runner: skip, raise, or enter the subgraph.
BranchNodeStart(s) ==
    /\ step = "branches" /\ pc[s] = "idle"
    /\ IF ~InList(Modality(s), state.requested_modalities)
       THEN /\ pc' = [pc EXCEPT ![s] = "skipped"]
            /\ UNCHANGED <<step, attempt, last_error, log>>
       ELSE IF ~Truthy(state.enhanced_prompt)
       THEN /\ step' = "aborted"
            /\ UNCHANGED <<pc, attempt, last_error, log>>
       ELSE /\ EnterSubgraph(s, state.enhanced_prompt)
            /\ UNCHANGED step
    /\ UNCHANGED <<publish, call, outcome, max_retries, state, result, patch>>

\* The value a branch node returns under its path key.
BranchPath(s, valid, r) ==
    IF s = "audio" THEN AudioSubgraph(valid, r).audio_path
    ELSE ImageSubgraph(valid, r).image_path

\* Both branch nodes returning their path under the audio node's key.
BranchNodeReturnSharedKey(s) ==
    /\ step = "branches" /\ pc[s] \in {"returned", "invalid"}
    /\ patch' = [patch EXCEPT !["audio"] = BranchPath(s, pc[s] = "returned", result[s])]
    /\ pc' = [pc EXCEPT ![s] = "done"]
    /\ UNCHANGED <<publish, call, outcome, max_retries, state, step, attempt, last_error, result, log>>

\* make_audio_subgraph_node._node and make_image_subgraph_node._node, from
\* the subgraph's return: the node returns {path key: result.get(path key)}.
BranchNodeReturn(s) ==
    /\ step = "branches" /\ pc[s] \in {"returned", "invalid"}
    /\ patch' = [patch EXCEPT ![s] = BranchPath(s, pc[s] = "returned", result[s])]
    /\ pc' = [pc EXCEPT ![s] = "done"]
    /\ UNCHANGED <<publish, call, outcome, max_retries, state, step, attempt, last_error, result, log>>

\* A last-value channel after a patch: unchanged when the patch has no such key.
Merge(old, new) == IF new = NoKey THEN old ELSE new

\* description_subgraph scheduled as soon as one of the branches has
\* returned.
JoinBranchesAfterEither ==
    /\ step = "branches"
    /\ \E s \in {"audio", "image"} : pc[s] \in {"done", "skipped"}
    /\ state' = [state EXCEPT !.audio_path = Merge(@, patch["audio"]),
                              !.image_path = Merge(@, patch["image"])]
    /\ step' = "description_subgraph"
    /\ UNCHANGED <<publish, call, outcome, max_retries, pc, attempt, last_error, result, patch, log>>

\* The superstep of the two branches ends when both nodes have returned:
\* their patches are merged and description_subgraph is scheduled.
JoinBranches ==
    /\ step = "branches"
    /\ \A s \in {"audio", "image"} : pc[s] \in {"done", "skipped"}
    /\ state' = [state EXCEPT !.audio_path = Merge(@, patch["audio"]),
                              !.image_path = Merge(@, patch["image"])]
    /\ step' = "description_subgraph"
    /\ UNCHANGED <<publish, call, outcome, max_retries, pc, attempt, last_error, result, patch, log>>

\* _description_ready without the test of the asset paths.
DescriptionReadyIgnoringPaths(st) ==
    /\ ~Truthy(st.description)
    /\ \E m \in {"audio", "image"} : InList(m, st.requested_modalities)

\* _description_ready with video counted among the supported modalities,
\* with no path to wait for.
DescriptionReadyVideoSupported(st) ==
    /\ ~Truthy(st.description)
    /\ \E m \in {"audio", "image", "video"} : InList(m, st.requested_modalities)
    /\ InList("audio", st.requested_modalities) => Truthy(st.audio_path)
    /\ InList("image", st.requested_modalities) => Truthy(st.image_path)

\* _description_ready waiting for both paths, whatever was requested.
DescriptionReadyRequiresBoth(st) ==
    /\ ~Truthy(st.description)
    /\ \E m \in {"audio", "image"} : InList(m, st.requested_modalities)
    /\ Truthy(st.audio_path)
    /\ Truthy(st.image_path)

\* _description_ready(state)
DescriptionReady(st) ==
    IF Truthy(st.description) THEN FALSE
    ELSE LET requested == { m \in {"audio", "image"} : InList(m, st.requested_modalities) }
         IN  IF requested = {} THEN FALSE
             ELSE /\ ("audio" \in requested => Truthy(st.audio_path))
                  /\ ("image" \in requested => Truthy(st.image_path))

\* make_description_subgraph_node._node, up to the first await inside the
\* runner: not ready (empty patch, then END), raise, or enter the subgraph.
DescriptionNodeStart ==
    /\ step = "description_subgraph" /\ pc["description"] = "idle"
    /\ IF ~DescriptionReady(state)
       THEN /\ pc' = [pc EXCEPT !["description"] = "skipped"]
            /\ step' = "END"
            /\ UNCHANGED <<attempt, last_error, log>>
       ELSE IF ~Truthy(state.enhanced_prompt)
       THEN /\ step' = "aborted"
            /\ UNCHANGED <<pc, attempt, last_error, log>>
       ELSE /\ EnterSubgraph("description", state.enhanced_prompt)
            /\ UNCHANGED step
    /\ UNCHANGED <<publish, call, outcome, max_retries, state, result, patch>>

\* The description node putting the status back to pending.
DescriptionNodeStatusPending(sub) == "pending"

\* The status the description node writes once its subgraph has returned.
DescriptionNodeStatus(sub) == "completed"

\* The description node returning a patch that also clears both asset paths.
DescriptionNodeReturnClearingPaths ==
    /\ step = "description_subgraph" /\ pc["description"] \in {"returned", "invalid"}
    /\ LET sub == DescriptionSubgraph(pc["description"] = "returned", result["description"]) IN
         state' = [state EXCEPT !.description = sub.description,
                                !.hashtags = sub.hashtags,
                                !.status = DescriptionNodeStatus(sub),
                                !.audio_path = NONE,
                                !.image_path = NONE]
    /\ pc' = [pc EXCEPT !["description"] = "done"]
    /\ step' = "END"
    /\ UNCHANGED <<publish, call, outcome, max_retries, attempt, last_error, result, patch, log>>

\* make_description_subgraph_node._node, from the subgraph's return; the
\* patch is merged and the graph reaches END.
DescriptionNodeReturn ==
    /\ step = "description_subgraph" /\ pc["description"] \in {"returned", "invalid"}
    /\ LET sub == DescriptionSubgraph(pc["description"] = "returned", result["description"]) IN
         state' = [state EXCEPT !.description = sub.description,
                                !.hashtags = sub.hashtags,
                                !.status = DescriptionNodeStatus(sub)]
    /\ pc' = [pc EXCEPT !["description"] = "done"]
    /\ step' = "END"
    /\ UNCHANGED <<publish, call, outcome, max_retries, attempt, last_error, result, patch, log>>

\* generate(): success = not bool(result.get("errors"))
GenerateSuccess(st) == st.errors = <<>>

Next ==
    \/ ParseRequestNode
    \/ PromptNodeStart
    \/ PromptNodeReturn
    \/ \E s \in {"audio", "image"} : BranchNodeStart(s)
    \/ \E s \in {"audio", "image"} : BranchNodeReturn(s)
    \/ JoinBranches
    \/ DescriptionNodeStart
    \/ DescriptionNodeReturn
    \/ \E s \in Stages : WorkerSucceeds(s)
    \/ \E s \in Stages : WorkerFails(s)
    \/ \E s \in Stages : WorkerRaises(s)
    \/ \E s \in Stages : LoopExit(s)
    \/ \E s \in Stages : ClassifyBetweenAttempts(s)
    \/ \E s \in Stages : Sleep(s)
    \/ \E s \in Stages : ClassifyFinal(s)

Spec == Init /\ [][Next]_vars

(***************************************************************************)
(* The two tools invoked on their own: parse_user_request, applied to a    *)
(* user input and then to the prompt it returned, and classify_error,      *)
(* applied to an error message and a context. The workflow is not started. *)
(***************************************************************************)
RECURSIVE Concat(_)
\* "".join(tokens)
Concat(tokens) ==
    IF tokens = <<>> THEN <<>> ELSE Head(tokens) \o Concat(Tail(tokens))

\* Every text made of at most n tokens.
Texts(tokens, n) == { Concat(t) : t \in UNION { [1..k -> tokens] : k \in 0..n } }

\* Pieces of user input: an audio keyword capitalised, an image keyword, a
\* video keyword, a word that is no keyword, a space, a punctuation mark and
\* a letter (which joined to a keyword makes it part of a longer word).
InputTokens ==
    { <<"A","u","d","i","o">>,
      <<"a","r","t">>,
      <<"c","l","i","p">>,
      <<"c","a","t">>,
      <<" ">>,
      <<"!">>,
      <<"y">> }

\* The user inputs the parser is applied to: the requests of the workflow
\* and every text of at most MaxTokens pieces.
ParserInputs == (UserPrompts \ {NoneVal}) \cup Texts(InputTokens, MaxTokens)

\* Pieces of error message: every keyword of the classifier (some
\* capitalised), a word that is no keyword and a space.
MessageTokens ==
    { <<"T","i","m","e","o","u","t">>,
      <<"c","o","n","n","e","c","t","i","o","n">>,
      <<"n","e","t","w","o","r","k">>,
      <<"4","2","9">>,
      <<"R","a","t","e"," ","L","i","m","i","t">>,
      <<"q","u","o","t","a">>,
      <<"A","P","I"," ","k","e","y">>,
      <<"u","n","a","u","t","h","o","r","i","z","e","d">>,
      <<"I","n","v","a","l","i","d">>,
      <<"m","i","s","s","i","n","g">>,
      <<"r","e","q","u","i","r","e","d">>,
      <<"v","a","l","i","d","a","t","i","o","n">>,
      <<"E","m","p","t","y"," ","r","e","s","p","o","n","s","e">>,
      <<"b","l","o","c","k","e","d">>,
      <<"g","e","n","e","r","a","t","i","o","n">>,
      <<"b","o","o","m">>,
      <<" ">> }

\* The error messages the classifier is applied to: the workers' and every
\* text of at most MaxMessageTokens pieces.
ClassifierMessages == WorkerErrors \cup Texts(MessageTokens, MaxMessageTokens)

\* The context argument: its default and the four stages' tags.
ClassifierContexts == {""} \cup { Context(s) : s \in Stages }

\* No workflow is running beside the tool.
WorkflowNotStarted ==
    /\ publish = NoPublish
    /\ max_retries = 0
    /\ state = [user_prompt |-> NoneVal,
                requested_modalities |-> <<>>,
                enhanced_prompt |-> NONE,
                main_statement |-> NONE,
                audio_path |-> NONE,
                image_path |-> NONE,
                video_path |-> NONE,
                description |-> NONE,
                hashtags |-> NONE,
                status |-> "pending",
                errors |-> <<>>]
    /\ step = "not_started"
    /\ outcome = [s \in Stages |-> NoOutcome]
    /\ pc = [s \in Stages |-> "idle"]
    /\ attempt = [s \in Stages |-> 0]
    /\ last_error = [s \in Stages |-> NoneVal]
    /\ result = [s \in Stages |-> NoResult]
    /\ patch = [s \in Stages |-> NoKey]
    /\ log = [s \in Stages |-> <<>>]

ParserInit ==
    /\ \E x \in ParserInputs :
         call = [tool |-> "parse_user_request",
                 args |-> [user_input |-> x],
                 outputs |-> <<>>]
    /\ WorkflowNotStarted

\* parse_user_request.invoke({"user_input": ...}): on the input first, then
\* on the prompt the previous invocation returned.
ParseUserRequestCall ==
    /\ call.tool = "parse_user_request"
    /\ Len(call.outputs) < MaxParses
    /\ LET user_input == IF call.outputs = <<>>
                         THEN call.args.user_input
                         ELSE call.outputs[Len(call.outputs)].prompt
       IN  call' = [call EXCEPT !.outputs = Append(@, ParseUserRequest(user_input))]
    /\ UNCHANGED <<publish, outcome, max_retries, state, step, pc, attempt, last_error, result, patch, log>>

ParserNext == ParseUserRequestCall

ParserSpec == ParserInit /\ [][ParserNext]_vars

ClassifierInit ==
    /\ \E m \in ClassifierMessages, c \in ClassifierContexts :
         call = [tool |-> "classify_error",
                 args |-> [error_message |-> m, context |-> c],
                 outputs |-> <<>>]
    /\ WorkflowNotStarted

\* classify_error.invoke({"error_message": ..., "context": ...})
ClassifyErrorCall ==
    /\ call.tool = "classify_error"
    /\ call.outputs = <<>>
    /\ call' = [call EXCEPT !.outputs =
                   <<ClassifyError(call.args.error_message, call.args.context)>>]
    /\ UNCHANGED <<publish, outcome, max_retries, state, step, pc, attempt, last_error, result, patch, log>>

\* classify_error.invoke(...) once more, on the same message under another
\* context.
ClassifyErrorCallOtherContext ==
    /\ call.tool = "classify_error"
    /\ Len(call.outputs) = 1
    /\ \E c \in ClassifierContexts \ {call.args.context} :
         call' = [call EXCEPT !.args.context = c,
                              !.outputs = Append(@, ClassifyError(call.args.error_message, c))]
    /\ UNCHANGED <<publish, outcome, max_retries, state, step, pc, attempt, last_error, result, patch, log>>

ClassifierNext ==
    \/ ClassifyErrorCall
    \/ ClassifyErrorCallOtherContext

ClassifierSpec == ClassifierInit /\ [][ClassifierNext]_vars

(***************************************************************************)
(* A stage subgraph invoked on its own, subgraph.ainvoke(stage_state): the *)
(* required field of the stage state is absent or None, empty, or a text;  *)
(* and the error classifier handed to the runner may raise.                *)
(***************************************************************************)
\* The superstep in which a stage's node runs.
StageStep(s) ==
    CASE s = "prompt" -> "prompt_subgraph"
      [] s \in {"audio", "image"} -> "branches"
      [] s = "description" -> "description_subgraph"

\* The required field of the stage state: input_prompt, script, prompt,
\* prompt; absent or None, the empty string, a text.
StageFields == {NONE, "", "a text"}

\* What the stage subgraph's _run returns.
StageSubgraph(s, valid, r) ==
    CASE s = "prompt" -> PromptSubgraph(valid, r)
      [] s = "audio" -> AudioSubgraph(valid, r)
      [] s = "image" -> ImageSubgraph(valid, r)
      [] s = "description" -> DescriptionSubgraph(valid, r)

StageInit ==
    /\ \E s \in Stages, v \in StageFields :
         /\ call = [tool |-> "stage_subgraph",
                    args |-> [stage |-> s, field |-> v],
                    outputs |-> <<>>]
         /\ step = StageStep(s)
    /\ publish = NoPublish
    /\ max_retries \in -1..MaxRetriesBound
    /\ state = [user_prompt |-> NoneVal,
                requested_modalities |-> <<>>,
                enhanced_prompt |-> NONE,
                main_statement |-> NONE,
                audio_path |-> NONE,
                image_path |-> NONE,
                video_path |-> NONE,
                description |-> NONE,
                hashtags |-> NONE,
                status |-> "pending",
                errors |-> <<>>]
    /\ outcome = [s \in Stages |-> NoOutcome]
    /\ pc = [s \in Stages |-> "idle"]
    /\ attempt = [s \in Stages |-> 0]
    /\ last_error = [s \in Stages |-> NoneVal]
    /\ result = [s \in Stages |-> NoResult]
    /\ patch = [s \in Stages |-> NoKey]
    /\ log = [s \in Stages |-> <<>>]

\* _run starts: the required field is validated, and the runner entered if
\* it is there.
SubgraphStart ==
    /\ call.tool = "stage_subgraph"
    /\ pc[call.args.stage] = "idle"
    /\ EnterSubgraph(call.args.stage, call.args.field)
    /\ UNCHANGED <<publish, call, outcome, max_retries, state, step, result, patch>>

\* _run returns: the failed patch of a missing field, or the patch built
\* from the runner's result.
SubgraphReturn ==
    /\ call.tool = "stage_subgraph"
    /\ pc[call.args.stage] \in {"returned", "invalid"}
    /\ LET s == call.args.stage IN
         /\ call' = [call EXCEPT !.outputs =
                        <<StageSubgraph(s, pc[s] = "returned", result[s])>>]
         /\ pc' = [pc EXCEPT ![s] = "done"]
    /\ UNCHANGED <<publish, outcome, max_retries, state, step, attempt, last_error, result, patch, log>>

\* error_classifier.invoke(...) between two attempts raises: the except
\* branch breaks out of the loop.
ClassifierRaisesBetweenAttempts(s) ==
    /\ Running(s) /\ pc[s] = "classify"
    /\ log' = [log EXCEPT ![s] = Append(@, "classify_raised")]
    /\ pc' = [pc EXCEPT ![s] = "final"]
    /\ UNCHANGED <<publish, call, outcome, max_retries, state, step, attempt, last_error, result, patch>>

\* error_classifier.invoke(...) after the loop raises: nothing catches it,
\* the exception leaves the runner.
ClassifierRaisesFinal(s) ==
    /\ Running(s) /\ pc[s] = "final"
    /\ log' = [log EXCEPT ![s] = Append(@, "classify_final_raised")]
    /\ pc' = [pc EXCEPT ![s] = "raised"]
    /\ UNCHANGED <<publish, call, outcome, max_retries, state, step, attempt, last_error, result, patch>>

StageNext ==
    \/ SubgraphStart
    \/ SubgraphReturn
    \/ \E s \in Stages : WorkerSucceeds(s)
    \/ \E s \in Stages : WorkerFails(s)
    \/ \E s \in Stages : WorkerRaises(s)
    \/ \E s \in Stages : LoopExit(s)
    \/ \E s \in Stages : ClassifyBetweenAttempts(s)
    \/ \E s \in Stages : Sleep(s)
    \/ \E s \in Stages : ClassifyFinal(s)
    \/ \E s \in Stages : ClassifierRaisesBetweenAttempts(s)
    \/ \E s \in Stages : ClassifierRaisesFinal(s)

StageSpec == StageInit /\ [][StageNext]_vars

(***************************************************************************)
(* A stage subgraph invoked on its own with a model that answers every     *)
(* call with an empty or blocked response: response.text is None, the      *)
(* worker raises ValueError inside its own try block and returns           *)
(* WorkerResult(success=False, error=str(e)).                              *)
(***************************************************************************)
\* The error text of the worker of a stage on response.text being None.
EmptyResponseError(s) ==
    IF s = "prompt"
    THEN <<"M","o","d","e","l"," ","r","e","s","p","o","n","s","e"," ","w","a","s"," ","e","m","p","t","y"," ","o","r"," ","b","l","o","c","k","e","d",".">>
    ELSE <<"M","o","d","e","l"," ","r","e","s","p","o","n","s","e"," ","w","a","s"," ","e","m","p","t","y"," ","o","r"," ","b","l","o","c","k","e","d"," ","b","y"," ","s","a","f","e","t","y"," ","f","i","l","t","e","r","s",".">>

\* The while test passes and worker.process() returns success=False with
\* the empty-response error.
WorkerReturnsEmptyResponse(s) ==
    /\ Running(s) /\ pc[s] = "loop"
    /\ LoopTest(attempt[s], max_retries)
    /\ RecordFailure(s, EmptyResponseError(s))
    /\ outcome' = [outcome EXCEPT ![s] = [ended |-> "failure", error |-> EmptyResponseError(s)]]

EmptyResponseNext ==
    \/ SubgraphStart
    \/ SubgraphReturn
    \/ \E s \in Stages : WorkerReturnsEmptyResponse(s)
    \/ \E s \in Stages : LoopExit(s)
    \/ \E s \in Stages : ClassifyBetweenAttempts(s)
    \/ \E s \in Stages : Sleep(s)
    \/ \E s \in Stages : ClassifyFinal(s)

EmptyResponseSpec == StageInit /\ [][EmptyResponseNext]_vars

(***************************************************************************)
(* agent/state.py: the errors channel of OverallState, declared            *)
(* Annotated[list[str], operator.add]. The graph is invoked with an        *)
(* OverallState that may hold errors, and the nodes of each superstep may  *)
(* return a patch with an "errors" key; the channel folds the writes of a  *)
(* superstep into its value with the reducer, one write after the other.   *)
(***************************************************************************)
\* The texts an errors list can hold.
ErrorTexts == {"Missing required fields", "Check your network connection"}

\* The errors lists of an input state or of a node's patch.
ErrorLists == {<<>>} \cup { <<e>> : e \in ErrorTexts }
                     \cup { <<e, f>> : e \in ErrorTexts, f \in ErrorTexts }

\* A node patch that does not hold the key "errors".
NoErrorsKey == <<NoKey>>

\* The errors a node's patch can carry: no such key, or a list.
ErrorPatches == {NoErrorsKey} \cup { <<e>> : e \in ErrorTexts }

\* A last-value channel in the place of the reducer.
ErrorsReducerLastValue(old, new) == new

\* operator.add on two lists
ErrorsReducer(old, new) == old \o new

\* The channel after the writes of one superstep, applied in order; a patch
\* without the key writes nothing.
RECURSIVE ApplyWrites(_, _)
ApplyWrites(old, writes) ==
    IF writes = <<>> THEN old
    ELSE ApplyWrites(IF Head(writes).errors = NoErrorsKey THEN old
                     ELSE ErrorsReducer(old, Head(writes).errors),
                     Tail(writes))

\* The nodes of a superstep.
NodesOf(superstep) ==
    CASE superstep = "parse_request" -> {"parse_request"}
      [] superstep = "prompt_subgraph" -> {"prompt_subgraph"}
      [] superstep = "branches" -> {"audio_subgraph", "image_subgraph"}
      [] superstep = "description_subgraph" -> {"description_subgraph"}

\* The superstep after a superstep.
NextSuperstep(superstep) ==
    CASE superstep = "parse_request" -> "prompt_subgraph"
      [] superstep = "prompt_subgraph" -> "branches"
      [] superstep = "branches" -> "description_subgraph"
      [] superstep = "description_subgraph" -> "END"

\* The writes of a superstep's nodes, in each order they can be applied in.
WritesOf(superstep) ==
    { w \in UNION { [1..n -> [node : NodesOf(superstep), errors : ErrorPatches]] : n \in 1..2 } :
        /\ Len(w) = Cardinality(NodesOf(superstep))
        /\ { w[i].node : i \in 1..Len(w) } = NodesOf(superstep) }

ErrorsInit ==
    /\ publish = NoPublish
    /\ call = [tool |-> "errors_channel", args |-> [writes |-> <<>>], outputs |-> <<>>]
    /\ max_retries = 0
    /\ \E input \in ErrorLists :
         state = [user_prompt |-> NoneVal,
                  requested_modalities |-> <<>>,
                  enhanced_prompt |-> NONE,
                  main_statement |-> NONE,
                  audio_path |-> NONE,
                  image_path |-> NONE,
                  video_path |-> NONE,
                  description |-> NONE,
                  hashtags |-> NONE,
                  status |-> "pending",
                  errors |-> ErrorsReducer(<<>>, input)]
    /\ step = "parse_request"
    /\ outcome = [s \in Stages |-> NoOutcome]
    /\ pc = [s \in Stages |-> "idle"]
    /\ attempt = [s \in Stages |-> 0]
    /\ last_error = [s \in Stages |-> NoneVal]
    /\ result = [s \in Stages |-> NoResult]
    /\ patch = [s \in Stages |-> NoKey]
    /\ log = [s \in Stages |-> <<>>]

\* A superstep ends: the errors of its nodes' patches are folded into the
\* channel. call holds the writes and the values the channel had before.
ErrorsSuperstep ==
    /\ call.tool = "errors_channel"
    /\ step \in {"parse_request", "prompt_subgraph", "branches", "description_subgraph"}
    /\ \E writes \in WritesOf(step) :
         /\ state' = [state EXCEPT !.errors = ApplyWrites(@, writes)]
         /\ call' = [call EXCEPT !.args.writes = writes,
                                 !.outputs = Append(@, state.errors)]
    /\ step' = NextSuperstep(step)
    /\ UNCHANGED <<publish, outcome, max_retries, pc, attempt, last_error, result, patch, log>>

ErrorsNext == ErrorsSuperstep

ErrorsSpec == ErrorsInit /\ [][ErrorsNext]_vars

(***************************************************************************)
(* app.py: the publish endpoints publish_instagram and publish_threads,    *)
(* and integrations/meta_graph.py: the three Graph API round trips they    *)
(* make (create container, container status, publish container). Time is   *)
(* counted in ticks from the moment the deadline is computed; it passes    *)
(* while the handler awaits a round trip or a sleep.                       *)
(***************************************************************************)
\* payload.wait_timeout_seconds, in ticks.
MaxWaitTicks == 3

\* payload.poll_interval_seconds, in ticks.
PollIntervals == {1, 2}

\* The ticks a Graph API round trip can take.
RoundTripTicks == {0, 1}

Platforms == {"instagram", "threads"}

\* The status a container status payload can hold under "status_code"
\* (Instagram) or "status" (Threads); NONE when the key is missing.
PollStatuses == {"IN_PROGRESS", "FINISHED", "PUBLISHED", "ERROR", "EXPIRED", NONE}

\* What a round trip can raise: MetaGraphError (the request failed, the
\* response was not JSON, the API reported an error, no id came back), or
\* another exception.
Raises == {"MetaGraphError", "Exception"}

\* The statuses that end the polling loop with a break.
FinishedStatuses(platform) ==
    IF platform = "instagram" THEN {"FINISHED"} ELSE {"FINISHED", "PUBLISHED"}

\* str.upper() on one character.
UpperChar(c) ==
    IF \E i \in 1..26 : LowerCase[i] = c
    THEN UpperCase[CHOOSE i \in 1..26 : LowerCase[i] = c]
    ELSE c

\* str.upper()
Upper(s) == [i \in 1..Len(s) |-> UpperChar(s[i])]

\* str.strip()
RECURSIVE PyStrip(_)
PyStrip(s) ==
    IF s = <<>> THEN s
    ELSE IF IsSpace(Head(s)) THEN PyStrip(Tail(s))
    ELSE IF IsSpace(s[Len(s)]) THEN PyStrip(SubSeq(s, 1, Len(s) - 1))
    ELSE s

\* The values of an optional text field of a request that a handler tells
\* apart: None, the empty string or white space only, a text.
MediaTypes ==
    { NoneVal,
      <<"T","E","X","T">>,
      <<" ","i","m","a","g","e"," ">>,
      <<"V","I","D","E","O">> }

Texts500 == { NoneVal, <<>>, <<" ">>, <<"h","e","l","l","o">> }

ImageUrls ==
    { NoneVal,
      <<" "," "," "," "," "," "," "," "," "," ">>,
      <<"h","t","t","p","s",":","/","/","a",".","b","/","c">> }

\* bool(x) of an optional string.
TruthyText(x) == x # NoneVal /\ x # <<>>

\* publish_threads: normalized_media_type
NormalizedMediaType(request) ==
    IF request.media_type # NoneVal THEN Upper(PyStrip(request.media_type))
    ELSE IF TruthyText(request.image_url) THEN <<"I","M","A","G","E">>
    ELSE <<"T","E","X","T">>

\* publish_threads: the three tests before the try block; TRUE when the
\* request passes them all.
ThreadsRequestAccepted(request) ==
    LET normalized == NormalizedMediaType(request) IN
      /\ normalized \in { <<"T","E","X","T">>, <<"I","M","A","G","E">> }
      /\ normalized = <<"T","E","X","T">> =>
           TruthyText(request.text) /\ TruthyText(PyStrip(request.text))
      /\ normalized = <<"I","M","A","G","E">> =>
           TruthyText(request.image_url) /\ TruthyText(PyStrip(request.image_url))

\* No response has been returned.
NoResponse == [success |-> FALSE, status |-> "none", container_id |-> NONE, media_id |-> NONE]

\* The response of a handler.
Response(success, status, container_id, media_id) ==
    [success |-> success, status |-> status, container_id |-> container_id, media_id |-> media_id]

\* The requests a publish endpoint can receive. Instagram: image_url is
\* required and the caption (text) only shapes the body of the create
\* request.
PublishRequests(platform) ==
    IF platform = "instagram"
    THEN [wait_timeout_seconds : 1..MaxWaitTicks,
          poll_interval_seconds : PollIntervals,
          media_type : {NoneVal},
          text : {<<>>, <<" ">>},
          image_url : {<<"h","t","t","p","s",":","/","/","a",".","b","/","c">>}]
    ELSE [wait_timeout_seconds : 1..MaxWaitTicks,
          poll_interval_seconds : PollIntervals,
          media_type : MediaTypes,
          text : Texts500,
          image_url : ImageUrls]

PublishInit ==
    /\ \E platform \in Platforms :
         \E request \in PublishRequests(platform) :
           publish = [platform |-> platform,
                      request |-> request,
                      pc |-> "start",
                      container_id |-> NONE,
                      status |-> NONE,
                      now |-> 0,
                      deadline |-> 0,
                      calls |-> <<>>,
                      response |-> NoResponse]
    /\ call = NoCall
    /\ max_retries = 0
    /\ state = [user_prompt |-> NoneVal,
                requested_modalities |-> <<>>,
                enhanced_prompt |-> NONE,
                main_statement |-> NONE,
                audio_path |-> NONE,
                image_path |-> NONE,
                video_path |-> NONE,
                description |-> NONE,
                hashtags |-> NONE,
                status |-> "pending",
                errors |-> <<>>]
    /\ step = "not_started"
    /\ outcome = [s \in Stages |-> NoOutcome]
    /\ pc = [s \in Stages |-> "idle"]
    /\ attempt = [s \in Stages |-> 0]
    /\ last_error = [s \in Stages |-> NoneVal]
    /\ result = [s \in Stages |-> NoResult]
    /\ patch = [s \in Stages |-> NoKey]
    /\ log = [s \in Stages |-> <<>>]

\* The handler's workflow variables stay as they are.
PublishFrame ==
    UNCHANGED <<call, outcome, max_retries, state, step, pc, attempt, last_error, result, patch, log>>

\* A round trip's exception leaving the handler.
RaisedUncaught(p, op, kind, ticks) ==
    [p EXCEPT !.pc = "raised",
              !.now = @ + ticks,
              !.calls = Append(@, [op |-> op, result |-> kind])]

\* A round trip raises inside the try block: one of the two except clauses
\* returns the failed response.
Raised(p, op, kind, ticks) ==
    [p EXCEPT !.pc = "responded",
              !.now = @ + ticks,
              !.calls = Append(@, [op |-> op, result |-> kind]),
              !.response = Response(FALSE, "failed", NONE, NONE)]

\* The handler up to its try block: publish_threads returns a failed
\* response for a request it does not accept.
PublishStart ==
    /\ publish.platform \in Platforms /\ publish.pc = "start"
    /\ IF publish.platform = "threads" /\ ~ThreadsRequestAccepted(publish.request)
       THEN publish' = [publish EXCEPT !.pc = "responded",
                                       !.response = Response(FALSE, "failed", NONE, NONE)]
       ELSE publish' = [publish EXCEPT !.pc = "create"]
    /\ PublishFrame

\* await ig_create_image_container(...) / threads_create_container(...),
\* and the deadline computed from its return.
CreateContainer ==
    /\ publish.platform \in Platforms /\ publish.pc = "create"
    /\ \/ publish' = [publish EXCEPT !.pc = "loop_test",
                                     !.container_id = "container_1",
                                     !.now = 0,
                                     !.deadline = publish.request.wait_timeout_seconds,
                                     !.calls = Append(@, [op |-> "create", result |-> "id"])]
       \/ \E kind \in Raises : publish' = Raised(publish, "create", kind, 0)
    /\ PublishFrame

\* while asyncio.get_running_loop().time() < deadline
PollLoopTest ==
    /\ publish.platform \in Platforms /\ publish.pc = "loop_test"
    /\ publish' = [publish EXCEPT !.pc = IF publish.now < publish.deadline
                                         THEN "poll" ELSE "after_loop"]
    /\ PublishFrame

\* await ig_get_container_status(...) / threads_get_container_status(...)
\* and the tests of the status in the loop body.
PollStatus ==
    /\ publish.platform \in Platforms /\ publish.pc = "poll"
    /\ \E ticks \in RoundTripTicks :
         \/ \E status \in PollStatuses :
              LET polled == [publish EXCEPT !.status = status,
                                            !.now = @ + ticks,
                                            !.calls = Append(@, [op |-> "poll", result |-> status])]
              IN  publish' =
                    IF status \in FinishedStatuses(publish.platform)
                    THEN [polled EXCEPT !.pc = "after_loop"]
                    ELSE IF status \in {"ERROR", "EXPIRED"}
                    THEN [polled EXCEPT !.pc = "responded",
                                        !.response = Response(FALSE, status, publish.container_id, NONE)]
                    ELSE [polled EXCEPT !.pc = "sleep"]
         \/ \E kind \in Raises : publish' = Raised(publish, "poll", kind, ticks)
    /\ PublishFrame

\* await asyncio.sleep(float(payload.poll_interval_seconds))
PollSleep ==
    /\ publish.platform \in Platforms /\ publish.pc = "sleep"
    /\ publish' = [publish EXCEPT !.pc = "loop_test",
                                  !.now = @ + publish.request.poll_interval_seconds]
    /\ PublishFrame

\* The loop left without its test of the status: the handler goes on to
\* publish the container.
AfterLoopPublishesAnyway ==
    /\ publish.platform \in Platforms /\ publish.pc = "after_loop"
    /\ publish' = [publish EXCEPT !.pc = "publish_container"]
    /\ PublishFrame

\* The test after the loop: the timeout response unless the last status
\* polled was a finished one.
AfterLoop ==
    /\ publish.platform \in Platforms /\ publish.pc = "after_loop"
    /\ IF publish.status \notin FinishedStatuses(publish.platform)
       THEN publish' = [publish EXCEPT !.pc = "responded",
                                       !.response = Response(FALSE, "timeout", publish.container_id, NONE)]
       ELSE publish' = [publish EXCEPT !.pc = "publish_container"]
    /\ PublishFrame

\* await ig_publish_container(...) / threads_publish_container(...) and the
\* published response.
PublishContainer ==
    /\ publish.platform \in Platforms /\ publish.pc = "publish_container"
    /\ \E ticks \in RoundTripTicks :
         \/ publish' = [publish EXCEPT !.pc = "responded",
                                       !.now = @ + ticks,
                                       !.calls = Append(@, [op |-> "publish", result |-> "media_1"]),
                                       !.response = Response(TRUE, "published", publish.container_id, "media_1")]
         \/ \E kind \in Raises : publish' = Raised(publish, "publish", kind, ticks)
    /\ PublishFrame

PublishNext ==
    \/ PublishStart
    \/ CreateContainer
    \/ PollLoopTest
    \/ PollStatus
    \/ PollSleep
    \/ AfterLoop
    \/ PublishContainer

PublishSpec == PublishInit /\ [][PublishNext]_vars

(***************************************************************************)
(* Properties.                                                             *)
(***************************************************************************)
\* Number of events ev in the history l.
Count(l, ev) == Cardinality({ i \in 1..Len(l) : l[i] = ev })

\* The worker invocations of stage s, in order.
WorkerEvents(s) == SelectSeq(log[s], LAMBDA e : e \in {"worker_ok", "worker_failed"})

WorkerCalls(s) == Len(WorkerEvents(s))

\* Classifier invocations of stage s: between attempts, and the final one.
ClassifierCalls(s) ==
    Count(log[s], "classify_retry") + Count(log[s], "classify_stop")
        + Count(log[s], "classify_final")

Sleeps(s) == Count(log[s], "sleep")

\* How often the node of stage s delegated to its subgraph.
Delegations(s) == Count(log[s], "enter")

\* The runner of stage s has returned.
Returned(s) == pc[s] \in {"returned", "done"}

\* The status of the stage subgraph of s, once its runner has returned.
SubgraphStatus(s) ==
    CASE s = "prompt" -> PromptSubgraph(TRUE, result[s]).status
      [] s = "audio" -> AudioSubgraph(TRUE, result[s]).status
      [] s = "image" -> ImageSubgraph(TRUE, result[s]).status
      [] s = "description" -> DescriptionSubgraph(TRUE, result[s]).status

\* The stage's worker failed and its runner returned failed.
FailedOperationally(s) ==
    /\ Returned(s)
    /\ result[s].status = "failed"
    /\ Count(log[s], "worker_failed") >= 1

\* The requested modalities that the core supports.
RequestedSupported == { m \in {"audio", "image"} : InList(m, state.requested_modalities) }

\* Every requested and supported modality has its asset path.
RequiredPathsPresent ==
    /\ RequestedSupported # {}
    /\ "audio" \in RequestedSupported => Truthy(state.audio_path)
    /\ "image" \in RequestedSupported => Truthy(state.image_path)

\* C1: with max_retries >= 1 the worker is invoked at most max_retries times;
\* no worker invocation follows a successful one; and if the first invocation
\* succeeds the worker is invoked exactly once and the classifier never.
C1_WorkerInvocationsBounded ==
    \A s \in Stages :
        max_retries >= 1 =>
            /\ WorkerCalls(s) <= max_retries
            /\ \A i \in 1..WorkerCalls(s) :
                   WorkerEvents(s)[i] = "worker_ok" => i = WorkerCalls(s)
            /\ (WorkerCalls(s) >= 1 /\ WorkerEvents(s)[1] = "worker_ok") =>
                   /\ WorkerCalls(s) = 1
                   /\ ClassifierCalls(s) = 0

\* A runner whose first attempt succeeded has returned, with attempts to spare.
C1_Witness ==
    \E s \in Stages :
        /\ max_retries >= 2
        /\ Returned(s)
        /\ WorkerEvents(s) = <<"worker_ok">>

\* C2: with max_retries >= 1 the classifier is invoked at most max_retries
\* times in one run of the runner, the final call included.
C2_ClassifierCallsBounded ==
    \A s \in Stages : max_retries >= 1 => ClassifierCalls(s) <= max_retries

\* A runner that used every attempt: max_retries - 1 calls between attempts
\* and the final one.
C2_Witness ==
    \E s \in Stages :
        /\ max_retries >= 2
        /\ Returned(s)
        /\ Count(log[s], "classify_final") = 1
        /\ ClassifierCalls(s) = max_retries

\* C3: once the classifier has marked an error not retryable between attempts,
\* the runner neither sleeps nor invokes the worker again: only the final
\* classification follows, and the runner returns failed.
C3_StopsWhenNotRetryable ==
    \A s \in Stages :
        \A i \in 1..Len(log[s]) :
            log[s][i] = "classify_stop" =>
                /\ \A j \in (i + 1)..Len(log[s]) : log[s][j] = "classify_final"
                /\ pc[s] \in {"final", "returned", "done"}
                /\ Returned(s) => result[s].status = "failed"

\* A runner that stopped on a non-retryable error with attempts left over.
C3_Witness ==
    \E s \in Stages :
        /\ Returned(s)
        /\ Count(log[s], "classify_stop") = 1
        /\ WorkerCalls(s) < max_retries
        /\ result[s].status = "failed"

\* C4: a run that ends with a successful attempt after k failed ones has
\* k < max_retries, k + 1 worker invocations, k classifier invocations (all
\* answering retryable), k sleeps, and the stage ends completed.
C4_RetryThenSuccess ==
    \A s \in Stages :
        (log[s] # <<>> /\ log[s][Len(log[s])] = "worker_ok") =>
            LET k == Count(log[s], "worker_failed") IN
                /\ k < max_retries
                /\ WorkerCalls(s) = k + 1
                /\ ClassifierCalls(s) = k
                /\ Count(log[s], "classify_retry") = k
                /\ Sleeps(s) = k
                /\ result[s].status = "completed"
                /\ SubgraphStatus(s) = "completed"

\* Scenario C: max_retries = 3, the audio worker fails twice with
\* "connection timeout" and then succeeds.
C4_Witness ==
    /\ max_retries = 3
    /\ pc["audio"] = "done"
    /\ log["audio"] = <<"enter", "worker_failed", "classify_retry", "sleep",
                        "worker_failed", "classify_retry", "sleep", "worker_ok">>
    /\ last_error["audio"] =
         <<"c","o","n","n","e","c","t","i","o","n"," ","t","i","m","e","o","u","t">>
    /\ Truthy(patch["audio"])

\* C5: the description node delegates to its subgraph at most once per
\* request, only when every requested and supported modality has its asset
\* path, and a run that reaches END with all those paths present has
\* delegated exactly once.
C5_DescriptionFiresOnceWhenReady ==
    /\ Delegations("description") <= 1
    /\ Delegations("description") = 1 => RequiredPathsPresent
    /\ (step = "END" /\ RequiredPathsPresent) => Delegations("description") = 1

\* A finished run with both modalities requested whose description was written.
C5_Witness ==
    /\ step = "END"
    /\ RequestedSupported = {"audio", "image"}
    /\ Delegations("description") = 1
    /\ Truthy(state.description)

\* C6: a run that reaches END has a terminal status.
C6_TerminalStatusAtEnd ==
    step = "END" => state.status \in {"completed", "partial", "failed"}

\* C7: at END, status completed implies that the description subgraph
\* succeeded and description is populated.
C7_CompletedOnlyOnDescriptionSuccess ==
    (step = "END" /\ state.status = "completed") =>
        /\ result["description"].status = "completed"
        /\ state.description # NONE

\* C8: at END, a stage subgraph that ended failed after its worker's failed
\* attempts is reported: errors is non-empty and the success flag is false.
C8_FailedStageReported ==
    step = "END" =>
        \A s \in Stages :
            (FailedOperationally(s) /\ SubgraphStatus(s) = "failed") =>
                /\ state.errors # <<>>
                /\ ~GenerateSuccess(state)

\* C9: a run aborts only without an operational failure: never after a
\* stage whose worker failed has ended failed.
C9_WorkerFailureNeverAborts ==
    step = "aborted" => \A s \in Stages : ~FailedOperationally(s)

\* C10: at END, with audio and image both requested, one branch failed
\* operationally and the other completed, the completed branch's path is
\* populated, errors is non-empty and status is neither completed nor a
\* status of a run in progress.
C10_PartialSuccessRepresented ==
    \A s \in {"audio", "image"} :
        LET t == IF s = "audio" THEN "image" ELSE "audio" IN
        (/\ step = "END"
         /\ RequestedSupported = {"audio", "image"}
         /\ FailedOperationally(s)
         /\ Returned(t) /\ result[t].status = "completed") =>
            /\ Truthy(IF t = "audio" THEN state.audio_path ELSE state.image_path)
            /\ state.errors # <<>>
            /\ state.status \notin {"completed", "running", "pending"}

\* user_prompt is absent or empty.
UserPromptMissing == state.user_prompt = NoneVal \/ state.user_prompt = <<>>

\* The path field of a branch stage.
PathOf(s) == IF s = "audio" THEN state.audio_path ELSE state.image_path

\* C11: with user_prompt absent or empty the run never gets past
\* parse_request: it is at the entry or aborted, no node has run, no stage has
\* delegated or invoked a worker, and the state is as it was given.
C11_MissingPromptAbortsAtEntry ==
    UserPromptMissing =>
        /\ step \in {"parse_request", "aborted"}
        /\ \A s \in Stages : pc[s] = "idle" /\ log[s] = <<>>
        /\ state.status = "pending"

\* A run that aborted at the entry on an empty user_prompt.
C11_Witness ==
    /\ state.user_prompt = <<>>
    /\ step = "aborted"

\* C12: once the request is parsed as video only, the description node never
\* delegates, the audio and image stages never invoke a worker, and the run
\* ends with no error recorded and a status other than failed.
C12_VideoOnlySkips ==
    (step # "parse_request" /\ state.requested_modalities = <<"video">>) =>
        /\ Delegations("description") = 0
        /\ WorkerCalls("audio") = 0 /\ WorkerCalls("image") = 0
        /\ WorkerCalls("description") = 0
        /\ step = "END" => (state.errors = <<>> /\ state.status # "failed")

\* A video-only run that reached END with both branches skipped.
C12_Witness ==
    /\ step = "END"
    /\ state.requested_modalities = <<"video">>
    /\ pc["audio"] = "skipped" /\ pc["image"] = "skipped"
    /\ pc["description"] = "skipped"

\* C13: a branch whose modality is not requested returns the empty patch: it
\* never enters its subgraph nor invokes a worker, its path stays unset, no
\* error is recorded, and a run that ends with the other branch requested and
\* its path present has had the description node delegate.
C13_UnrequestedBranchIsNoOp ==
    \A s \in {"audio", "image"} :
        LET t == IF s = "audio" THEN "image" ELSE "audio" IN
        (step # "parse_request" /\ ~InList(s, state.requested_modalities)) =>
            /\ pc[s] \in {"idle", "skipped"}
            /\ log[s] = <<>>
            /\ patch[s] = NoKey
            /\ PathOf(s) = NONE
            /\ state.errors = <<>>
            /\ (step = "END" /\ InList(t, state.requested_modalities) /\ Truthy(PathOf(t))) =>
                   Delegations("description") = 1

\* A finished run in which image was skipped, audio produced its path and the
\* description stage ran.
C13_Witness ==
    /\ step = "END"
    /\ pc["image"] = "skipped"
    /\ Truthy(state.audio_path)
    /\ Delegations("description") = 1

\* C14: with audio the only requested supported modality, the description
\* node delegates only with audio_path set; and a run that reaches END with
\* no stage failed has run the audio stage, skipped the image stage without
\* a worker invocation, delegated to the description stage exactly once, and
\* ended completed.
C14_AudioOnlyRunCompletes ==
    (step # "parse_request" /\ RequestedSupported = {"audio"}) =>
        /\ Delegations("description") >= 1 => Truthy(state.audio_path)
        /\ (step = "END" /\ \A s \in Stages : result[s].status # "failed") =>
               /\ WorkerCalls("audio") >= 1
               /\ result["audio"].status = "completed"
               /\ pc["image"] = "skipped" /\ WorkerCalls("image") = 0
               /\ Delegations("description") = 1
               /\ result["description"].status = "completed"
               /\ state.status = "completed"

\* Scenario A after parsing: audio (and video) requested, every worker
\* succeeded at once, the run is at END.
C14_Witness ==
    /\ step = "END"
    /\ state.requested_modalities = <<"audio", "video">>
    /\ \A s \in {"prompt", "audio", "description"} : WorkerEvents(s) = <<"worker_ok">>
    /\ state.status = "completed"

(***************************************************************************)
(* Properties of the tools.                                                *)
(***************************************************************************)
\* kw, in lower case, occurs in x whatever the case of x's letters.
Mentions(kw, x) ==
    LET lowered == Lower(x) IN
    \E i \in 1..(Len(x) - Len(kw) + 1) : SubSeq(lowered, i, i + Len(kw) - 1) = kw

\* One of the keywords kws occurs in x.
MentionsAny(kws, x) == \E n \in 1..Len(kws) : Mentions(kws[n], x)

\* The elements of a list.
ModalitySet(list) == { list[n] : n \in 1..Len(list) }

\* How many times the parser has been invoked.
Parses == IF call.tool = "parse_user_request" THEN Len(call.outputs) ELSE 0

\* The input of the n-th invocation of the parser.
ParseInput(n) == IF n = 1 THEN call.args.user_input ELSE call.outputs[n - 1].prompt

\* The input of scenario A and the prompt it leaves.
ScenarioAInput ==
    <<"m","a","k","e"," ","m","e"," ","a"," ","s","h","o","r","t"," ","a","u","d","i","o"," ","c","l","i","p"," ","a","b","o","u","t"," ","c","o","u","r","a","g","e">>
ScenarioAPrompt ==
    <<"m","a","k","e"," ","m","e"," ","a"," ","s","h","o","r","t"," ","a","b","o","u","t"," ","c","o","u","r","a","g","e">>

\* C15 as stated: parsing "make me a short audio clip about courage" yields
\* the modality set exactly {audio} and the prompt without "audio" and
\* "clip".
C15_ScenarioAParsesToAudioOnly ==
    (Parses >= 1 /\ call.args.user_input = ScenarioAInput) =>
        /\ ModalitySet(call.outputs[1].requested_modalities) = {"audio"}
        /\ call.outputs[1].prompt = ScenarioAPrompt

\* C15: parsing "make me a short audio clip about courage" yields the
\* modality set {audio, video} ("clip" is a video keyword), of which audio is
\* the only supported modality, and the prompt "make me a short about
\* courage", without "audio" and "clip".
C15_ScenarioAParsesToAudioAndVideo ==
    (Parses >= 1 /\ call.args.user_input = ScenarioAInput) =>
        /\ call.outputs[1].requested_modalities = <<"audio", "video">>
        /\ ModalitySet(call.outputs[1].requested_modalities) \cap {"audio", "image"} = {"audio"}
        /\ call.outputs[1].prompt = ScenarioAPrompt

\* Scenario A's input has been parsed and video is among the modalities.
C15_Witness ==
    /\ Parses >= 1
    /\ call.args.user_input = ScenarioAInput
    /\ InList("video", call.outputs[1].requested_modalities)

\* C16: parsing the prompt a parse returned gives the same modality set as
\* that parse gave.
C16_ModalitiesIdempotent ==
    \A n \in 2..Parses :
        ModalitySet(call.outputs[n].requested_modalities) =
            ModalitySet(call.outputs[n - 1].requested_modalities)

\* C17: parsing the prompt a parse returned gives that prompt again; and
\* when stripping leaves nothing, the first parse returns the raw input and
\* so does the second.
C17_StrippingIdempotent ==
    /\ \A n \in 2..Parses : call.outputs[n].prompt = call.outputs[n - 1].prompt
    /\ \A n \in 1..Parses :
         Strip(CollapseFrom(StripFrom(call.args.user_input, 1), 1)) = <<>> =>
             call.outputs[n].prompt = call.args.user_input

\* An input of keywords and spaces only, keywords among them, was parsed
\* twice and came back raw both times.
C17_Witness ==
    /\ Parses >= 2
    /\ StripFrom(call.args.user_input, 1) # call.args.user_input
    /\ Strip(CollapseFrom(StripFrom(call.args.user_input, 1), 1)) = <<>>
    /\ call.outputs[1].prompt = call.args.user_input
    /\ call.outputs[2].prompt = call.args.user_input

\* C18: an input that mentions no modality keyword parses to the modalities
\* {image, audio}; and no parse returns an empty modality list.
C18_DefaultModalities ==
    \A n \in 1..Parses :
        /\ ~MentionsAny(StripKeywords, ParseInput(n)) =>
               /\ ModalitySet(call.outputs[n].requested_modalities) = {"image", "audio"}
               /\ Len(call.outputs[n].requested_modalities) = Cardinality({"image", "audio"})
        /\ call.outputs[n].requested_modalities # <<>>

\* A non-empty input without any keyword got the default.
C18_Witness ==
    /\ Parses >= 1
    /\ call.args.user_input # <<>>
    /\ ~MentionsAny(StripKeywords, call.args.user_input)
    /\ call.outputs[1].requested_modalities = <<"image", "audio">>

\* C19: an input that mentions an audio keyword and neither an image nor a
\* video keyword parses to the modalities {audio} exactly.
C19_AudioKeywordOnly ==
    \A n \in 1..Parses :
        ( /\ MentionsAny(AudioKeywords, ParseInput(n))
          /\ ~MentionsAny(ImageKeywords, ParseInput(n))
          /\ ~MentionsAny(VideoKeywords, ParseInput(n)) ) =>
            call.outputs[n].requested_modalities = <<"audio">>

\* An input whose only keyword is an audio keyword inside a longer word, so
\* that nothing is stripped, parsed to {audio}.
C19_Witness ==
    /\ Parses >= 1
    /\ MentionsAny(AudioKeywords, call.args.user_input)
    /\ ~MentionsAny(ImageKeywords, call.args.user_input)
    /\ ~MentionsAny(VideoKeywords, call.args.user_input)
    /\ call.outputs[1].prompt = call.args.user_input
    /\ StripFrom(call.args.user_input, 1) = call.args.user_input
    /\ call.outputs[1].requested_modalities = <<"audio">>

\* The classification table, in priority order.
ReferenceRules ==
    << [keywords |-> NetworkKeywords, error_type |-> "network",
        is_retryable |-> TRUE, retry_delay_seconds |-> 5],
       [keywords |-> ApiKeywords, error_type |-> "api",
        is_retryable |-> TRUE, retry_delay_seconds |-> 60],
       [keywords |-> ValidationKeywords, error_type |-> "validation",
        is_retryable |-> FALSE, retry_delay_seconds |-> 0],
       [keywords |-> GenerationKeywords, error_type |-> "generation",
        is_retryable |-> TRUE, retry_delay_seconds |-> 2] >>

\* The first rule of the table a message matches, or the rule for unknown.
Reference(error_message) ==
    LET hits == { n \in 1..Len(ReferenceRules) :
                    MentionsAny(ReferenceRules[n].keywords, error_message) }
    IN  IF hits = {}
        THEN [error_type |-> "unknown", is_retryable |-> TRUE, retry_delay_seconds |-> 3]
        ELSE LET n == CHOOSE k \in hits : \A m \in hits : k <= m
             IN  [error_type |-> ReferenceRules[n].error_type,
                  is_retryable |-> ReferenceRules[n].is_retryable,
                  retry_delay_seconds |-> ReferenceRules[n].retry_delay_seconds]

\* The classifier has been invoked.
Classified == call.tool = "classify_error" /\ call.outputs # <<>>

\* C20: what classify_error returns has the error type, retryability and
\* delay of the first rule of the table the message matches (unknown when it
\* matches none); a message with both "timeout" and "invalid" is network.
C20_ClassifierFollowsTable ==
    Classified =>
        LET out == call.outputs[1]
            ref == Reference(call.args.error_message)
        IN  /\ out.error_type = ref.error_type
            /\ out.is_retryable = ref.is_retryable
            /\ out.retry_delay_seconds = ref.retry_delay_seconds
            /\ ( /\ Mentions(NetworkKeywords[1], call.args.error_message)
                 /\ Mentions(ValidationKeywords[1], call.args.error_message) ) =>
                   out.error_type = "network"

\* A message with "invalid" before "timeout" was classified as network.
C20_Witness ==
    /\ Classified
    /\ Mentions(NetworkKeywords[1], call.args.error_message)
    /\ Mentions(ValidationKeywords[1], call.args.error_message)
    /\ ~Mentions(NetworkKeywords[1], SubSeq(call.args.error_message, 1, Len(NetworkKeywords[1])))
    /\ call.outputs[1].error_type = "network"
    /\ call.outputs[1].is_retryable

\* C21: classifying one message under two different contexts gives the same
\* classification (type, retryability, delay, suggestion), and with it the
\* same decision of the runner after a failed attempt.
C21_ContextIndependent ==
    (call.tool = "classify_error" /\ Len(call.outputs) = 2) =>
        /\ call.outputs[2] = call.outputs[1]
        /\ AfterClassification(call.outputs[2]) = AfterClassification(call.outputs[1])

\* A message the classifier stops on, classified under the default context
\* and then under the description stage's tag.
C21_Witness ==
    /\ call.tool = "classify_error"
    /\ Len(call.outputs) = 2
    /\ call.args.context = Context("description")
    /\ ~call.outputs[1].is_retryable
    /\ AfterClassification(call.outputs[2]) = "final"

(***************************************************************************)
(* Properties of a stage invoked on its own.                               *)
(***************************************************************************)
\* The positions in l of the events ev.
Positions(l, ev) == { n \in 1..Len(l) : l[n] \in ev }

\* C22: once the classifier has raised between two attempts the worker is
\* invoked no further, no exception leaves the runner, and what the runner
\* returns is a failed result.
C22_ClassifierFailureFailsClosed ==
    \A s \in Stages :
        Positions(log[s], {"classify_raised"}) # {} =>
            /\ \A i \in Positions(log[s], {"classify_raised"}),
                  j \in Positions(log[s], {"worker_ok", "worker_failed"}) : j < i
            /\ pc[s] # "raised"
            /\ pc[s] \in {"returned", "done"} => result[s].status = "failed"

\* C25: a stage subgraph invoked with its required field absent or None
\* invokes no worker and calls no classifier (its log holds nothing but its
\* entry), and returns status failed with the missing-field message as its
\* only error.
C25_MissingFieldFailsAtOnce ==
    (call.tool = "stage_subgraph" /\ call.args.field = NONE) =>
        LET s == call.args.stage IN
        /\ pc[s] \in {"idle", "invalid", "done"}
        /\ log[s] \in {<<>>, <<"enter">>}
        /\ outcome[s] = NoOutcome /\ attempt[s] = 0
        /\ result[s] = NoResult
        /\ pc[s] = "done" =>
               /\ call.outputs[1].status = "failed"
               /\ call.outputs[1].errors = <<"Missing required fields">>

\* The description subgraph, invoked without its prompt, has returned.
C25_Witness ==
    /\ call.tool = "stage_subgraph"
    /\ call.args = [stage |-> "description", field |-> NONE]
    /\ pc["description"] = "done"
    /\ call.outputs # <<>>

\* C23: a step in which worker.process() raises uses up one attempt, records
\* the exception's message as the error, goes on to the same decision as a
\* failed attempt does (the classifier if attempts remain, else the loop
\* test), lets no exception leave the runner, and is the very step a returned
\* failure with that message takes.
C23_ExceptionIsAFailure ==
    [][\A s \in Stages :
         WorkerRaises(s) =>
             /\ attempt'[s] = attempt[s] + 1
             /\ outcome'[s].ended = "failure"
             /\ last_error'[s] = outcome'[s].error
             /\ pc'[s] = AfterFailure(attempt'[s], max_retries)
             /\ pc'[s] # "raised"
             /\ step' = step
             /\ WorkerFails(s)]_vars

\* The first attempt of the audio stage raised (or failed) with a retryable
\* error, and the runner is at its delay before the second.
C23_Witness ==
    /\ call.tool = "stage_subgraph" /\ call.args.stage = "audio"
    /\ outcome["audio"].ended = "failure"
    /\ last_error["audio"] = outcome["audio"].error
    /\ attempt["audio"] = 1
    /\ log["audio"] = <<"enter", "worker_failed", "classify_retry">>
    /\ pc["audio"] = "sleep"

\* C24: a failed result of the runner carries the error of the last attempt
\* the worker made, and the error type and suggestion the classifier gives
\* for that error.
C24_FailedResultReportsLastError ==
    \A s \in Stages :
        result[s].status = "failed" =>
            /\ attempt[s] >= 1 =>
                   /\ outcome[s].ended = "failure"
                   /\ result[s].error = outcome[s].error
            /\ result[s].error_type = Reference(result[s].error).error_type
            /\ result[s].error_type = ClassifyError(result[s].error, Context(s)).error_type
            /\ result[s].suggestion = ClassifyError(result[s].error, Context(s)).suggestion

\* The image runner failed on its second attempt with an error that is not
\* retryable, after a first attempt whose error was: the result reports the
\* second.
C24_Witness ==
    /\ step = "branches"
    /\ log["image"] = <<"enter", "worker_failed", "classify_retry", "sleep",
                        "worker_failed", "classify_stop", "classify_final">>
    /\ result["image"].status = "failed"
    /\ result["image"].error_type = "validation"
    /\ result["image"].error = outcome["image"].error

(***************************************************************************)
(* Properties of the graph's order and of its two branches.                *)
(***************************************************************************)
\* The node of stage s has run to its end, or skipped.
Resolved(s) == pc[s] \in {"done", "skipped"}

\* The other branch.
Sibling(s) == IF s = "audio" THEN "image" ELSE "audio"

\* C26: the prompt node starts only after parse_request has completed, a
\* branch node only after the prompt node has, the description node only
\* after both branch nodes have resolved and their patches are merged; the
\* description node delegates at most once, and at END it has been evaluated
\* (it ran or it skipped).
C26_TopologyOrder ==
    /\ pc["prompt"] # "idle" =>
           step # "parse_request" /\ state.status # "pending"
    /\ \A s \in {"audio", "image"} :
           pc[s] # "idle" => pc["prompt"] = "done" /\ step # "prompt_subgraph"
    /\ (pc["description"] # "idle" \/ step \in {"description_subgraph", "END"}) =>
           /\ Resolved("audio") /\ Resolved("image")
           /\ state.audio_path = Merge(NONE, patch["audio"])
           /\ state.image_path = Merge(NONE, patch["image"])
    /\ Delegations("description") <= 1
    /\ step = "END" => Resolved("description")

\* A run at END in which both branches and the description stage ran.
C26_Witness ==
    /\ step = "END"
    /\ \A s \in Stages : pc[s] = "done"

\* C27: while the branches run neither sees a path written (each works on
\* the state the prompt node left); and once they are merged, audio_path is
\* what the audio branch alone produced and image_path what the image branch
\* alone produced, whatever the order in which the two ran and returned.
C27_BranchesIndependent ==
    /\ step = "branches" => state.audio_path = NONE /\ state.image_path = NONE
    /\ step \in {"description_subgraph", "END"} =>
           \A s \in {"audio", "image"} :
               PathOf(s) = IF pc[s] = "skipped" THEN NONE
                           ELSE BranchPath(s, TRUE, result[s])

\* Both branches ran, one failed after retries and one succeeded, and the
\* description node's turn has come.
C27_Witness ==
    /\ step = "description_subgraph"
    /\ pc["audio"] = "done" /\ pc["image"] = "done"
    /\ result["audio"].status = "failed" /\ Sleeps("audio") >= 1
    /\ Truthy(state.image_path) /\ ~Truthy(state.audio_path)

\* A step of the node or runner of stage s, the calls of the classifier
\* apart.
StageStepOf(s) ==
    \/ BranchNodeStart(s) \/ BranchNodeReturn(s)
    \/ WorkerSucceeds(s) \/ WorkerFails(s) \/ WorkerRaises(s)
    \/ LoopExit(s) \/ Sleep(s)

\* The runner of stage s is at a call of the classifier, which nothing but
\* the runner's own position conditions.
AtClassifier(s) == Running(s) /\ pc[s] \in {"classify", "final"}

\* C28: while a branch is in the runner's delay, its sibling, unless it has
\* resolved, can take its next step: a step of its node or runner, or a call
\* of the classifier.
C28_DelayDoesNotBlockSibling ==
    \A s \in {"audio", "image"} :
        (step = "branches" /\ pc[s] = "sleep" /\ ~Resolved(Sibling(s))) =>
            \/ AtClassifier(Sibling(s))
            \/ ENABLED <<StageStepOf(Sibling(s))>>_vars

\* Audio is in its delay and image, which started after audio went to
\* sleep or ran beside it, has completed.
C28_Witness ==
    /\ step = "branches"
    /\ pc["audio"] = "sleep"
    /\ pc["image"] = "done"
    /\ result["image"].status = "completed"

\* The worker invocations of the whole request.
TotalWorkerCalls ==
    WorkerCalls("prompt") + WorkerCalls("audio") + WorkerCalls("image")
        + WorkerCalls("description")

\* How far a stage is from the end of its node: its position in the node
\* and the runner, and the attempts the runner has left.
StageMeasure(s) ==
    LET left == 4 * (max_retries - attempt[s]) IN
    CASE pc[s] = "idle" -> 4 * max_retries + 7
      [] pc[s] = "classify" -> left + 6
      [] pc[s] = "sleep" -> left + 5
      [] pc[s] = "loop" -> left + 3
      [] pc[s] = "final" -> 2
      [] pc[s] \in {"returned", "invalid"} -> 1
      [] OTHER -> 0

\* How far the run is from its end.
Measure ==
    (CASE step = "parse_request" -> 5
       [] step = "prompt_subgraph" -> 4
       [] step = "branches" -> 3
       [] step = "description_subgraph" -> 2
       [] OTHER -> 0)
    + StageMeasure("prompt") + StageMeasure("audio")
    + StageMeasure("image") + StageMeasure("description")

\* A step of a node or of a runner, the calls of the parser and of the
\* classifier apart.
NodeOrWorkerStep ==
    \/ PromptNodeStart \/ PromptNodeReturn
    \/ \E s \in {"audio", "image"} : StageStepOf(s)
    \/ JoinBranches
    \/ DescriptionNodeStart \/ DescriptionNodeReturn
    \/ \E s \in {"prompt", "description"} :
         \/ WorkerSucceeds(s) \/ WorkerFails(s) \/ WorkerRaises(s)
         \/ LoopExit(s) \/ Sleep(s)

\* C29: every step of a run brings it nearer to its end (Measure, a natural
\* number, decreases), and a run that is not at END nor aborted can take a
\* step, so that every run whose awaits return reaches END or aborts; all
\* along each runner has invoked its worker at most max_retries times, each
\* stage node has delegated at most once, and the request has made at most
\* 4 * max_retries worker invocations.
C29_RunTerminates ==
    /\ [][Measure' < Measure]_vars
    /\ [](/\ Measure >= 0
          /\ step \notin {"END", "aborted"} =>
                 \/ step = "parse_request"
                 \/ \E s \in Stages : AtClassifier(s)
                 \/ ENABLED <<NodeOrWorkerStep>>_vars
          /\ \A s \in Stages : WorkerCalls(s) <= max_retries /\ Delegations(s) <= 1
          /\ TotalWorkerCalls <= Cardinality(Stages) * max_retries)

\* A run that ended after every stage used all of three attempts but the
\* prompt stage, which has to succeed for the others to run.
C29_Witness ==
    /\ step = "END"
    /\ max_retries >= 2
    /\ WorkerCalls("audio") = max_retries
    /\ WorkerCalls("image") = max_retries
    /\ WorkerCalls("description") = max_retries

\* C30: a status of completed or failed is never changed, and a status of
\* running never goes back to pending.
C30_StatusMonotonic ==
    [][/\ state.status \in {"completed", "failed"} => state'.status = state.status
       /\ state.status = "running" => state'.status # "pending"
       /\ state.status # "pending" => state'.status # "pending"]_vars

\* The description node has written completed over running, and the run is
\* at END.
C30_Witness ==
    /\ step = "END"
    /\ state.status = "completed"
    /\ pc["description"] = "done"

(***************************************************************************)
(* The errors channel.                                                     *)
(***************************************************************************)
\* a is a prefix of b.
IsPrefix(a, b) == Len(a) <= Len(b) /\ SubSeq(b, 1, Len(a)) = a

\* The number of entries the writes of a superstep carry.
RECURSIVE WrittenEntries(_)
WrittenEntries(writes) ==
    IF writes = <<>> THEN 0
    ELSE (IF Head(writes).errors = NoErrorsKey THEN 0 ELSE Len(Head(writes).errors))
         + WrittenEntries(Tail(writes))

\* C31: OverallState.errors is append-only. In every step the new errors
\* sequence has the previous one as a prefix, and the errors of the patches
\* of one superstep (two of them when audio and image finish together) are
\* all there after it, none taking the place of another or of an earlier
\* entry.
C31_ErrorsAppendOnly ==
    [][ /\ IsPrefix(state.errors, state'.errors)
        /\ Len(state'.errors) = Len(state.errors) + WrittenEntries(call'.args.writes)
        /\ \A i \in 1..Len(call'.args.writes) :
             LET w == call'.args.writes[i].errors IN
               w # NoErrorsKey =>
                 \E at \in Len(state.errors)..Len(state'.errors) :
                   SubSeq(state'.errors, at + 1, at + Len(w)) = w ]_vars

\* Audio and image have finished together, each with an error in its patch,
\* on a channel that already held entries.
C31_Witness ==
    /\ call.tool = "errors_channel"
    /\ step = "description_subgraph"
    /\ \A i \in 1..Len(call.args.writes) : call.args.writes[i].errors # NoErrorsKey
    /\ call.args.writes[1].errors # call.args.writes[2].errors
    /\ Len(call.outputs[Len(call.outputs)]) >= 2
    /\ Len(state.errors) = Len(call.outputs[Len(call.outputs)]) + 2

(***************************************************************************)
(* The asset paths.                                                        *)
(***************************************************************************)
\* C32: audio_path is written by the Audio node alone and image_path by the
\* Image node alone: only the node of a path returns a patch for it, the
\* path changes only when that patch is merged at the end of the branches'
\* superstep, and a path that is set (not None) is never changed or cleared
\* by a later step of the run.
C32_PathsWrittenByOwnerAndKept ==
    [][\A s \in {"audio", "image"} :
         /\ patch'[s] # patch[s] =>
              /\ pc[s] \in {"returned", "invalid"} /\ pc'[s] = "done"
              /\ patch'[s] = BranchPath(s, pc[s] = "returned", result[s])
         /\ PathOf(s)' # PathOf(s) =>
              /\ step = "branches" /\ step' = "description_subgraph"
              /\ patch[s] # NoKey /\ PathOf(s)' = patch[s]
         /\ PathOf(s) # NONE => PathOf(s)' = PathOf(s)]_vars

\* The run is over, the description node has run after the branches, and
\* the two paths the branch nodes wrote are still there.
C32_Witness ==
    /\ step = "END"
    /\ pc["description"] = "done"
    /\ Truthy(state.audio_path) /\ Truthy(state.image_path)
    /\ state.audio_path = patch["audio"] /\ state.image_path = patch["image"]

(***************************************************************************)
(* The publish endpoints.                                                  *)
(***************************************************************************)
\* The statuses on which the polling loop goes on.
ContinuingStatuses(platform) ==
    PollStatuses \ (FinishedStatuses(platform) \cup {"ERROR", "EXPIRED"})

\* C33: in both publish endpoints the round trips come in the order create
\* container, container status (one or more), publish container. The
\* publish round trip is made only after create returned an id and the last
\* poll returned FINISHED (or PUBLISHED for Threads); it is not made after a
\* poll that returned ERROR or EXPIRED, whose response is success=false with
\* that status, nor when the deadline passed with no finished status, whose
\* response is success=false with status timeout.
C33_PublishProtocolOrder ==
    LET c == publish.calls
        finished == FinishedStatuses(publish.platform)
    IN  /\ \A n \in 1..Len(c) : (c[n].op = "create") <=> (n = 1)
        /\ \A n \in 1..Len(c) :
             c[n].op = "poll" =>
               /\ c[1].result = "id"
               /\ \A k \in 2..n : c[k].op = "poll"
        /\ \A n \in 1..Len(c) :
             c[n].op = "publish" =>
               /\ n = Len(c) /\ n >= 3
               /\ c[1] = [op |-> "create", result |-> "id"]
               /\ c[n - 1].op = "poll" /\ c[n - 1].result \in finished
               /\ \A k \in 2..(n - 2) : c[k].result \in ContinuingStatuses(publish.platform)
        /\ \A n \in 1..Len(c) :
             (c[n].op = "poll" /\ c[n].result \in {"ERROR", "EXPIRED"}) =>
               /\ n = Len(c)
               /\ publish.pc = "responded"
               /\ publish.response = Response(FALSE, c[n].result, publish.container_id, NONE)
        /\ (/\ publish.pc = "responded"
            /\ c # <<>>
            /\ c[Len(c)].op = "poll"
            /\ c[Len(c)].result \in ContinuingStatuses(publish.platform)) =>
               /\ publish.now >= publish.deadline
               /\ publish.response = Response(FALSE, "timeout", publish.container_id, NONE)
        /\ publish.response.status = "timeout" =>
             /\ publish.now >= publish.deadline
             /\ \A n \in 1..Len(c) : c[n].op # "publish" /\ c[n].result \notin finished
        /\ publish.pc = "publish_container" =>
             c # <<>> /\ c[Len(c)].op = "poll" /\ c[Len(c)].result \in finished

\* publish_threads has created the container, polled a status that is not
\* final, slept, polled PUBLISHED and published the container.
C33_Witness ==
    /\ publish.platform = "threads"
    /\ publish.pc = "responded"
    /\ publish.response = Response(TRUE, "published", "container_1", "media_1")
    /\ Len(publish.calls) = 4
    /\ publish.calls[2] = [op |-> "poll", result |-> "IN_PROGRESS"]
    /\ publish.calls[3] = [op |-> "poll", result |-> "PUBLISHED"]
    /\ publish.calls[4].op = "publish"

\* C34: the publish endpoints never raise. A MetaGraphError or another
\* exception in the create, poll or publish round trip ends the handler
\* with the response success=false, status failed; and success=true is
\* returned only when the publish round trip returned a media id.
C34_PublishNeverRaises ==
    LET c == publish.calls IN
      /\ publish.pc # "raised"
      /\ \A n \in 1..Len(c) :
           c[n].result \in Raises =>
             /\ n = Len(c)
             /\ publish.pc = "responded"
             /\ publish.response = Response(FALSE, "failed", NONE, NONE)
      /\ (publish.pc = "responded") <=> (publish.response # NoResponse)
      /\ publish.response.success =>
           /\ publish.pc = "responded"
           /\ c # <<>>
           /\ c[Len(c)] = [op |-> "publish", result |-> publish.response.media_id]
           /\ publish.response.media_id # NONE

\* publish_instagram has created the container, polled FINISHED, and the
\* publish round trip raised an exception that is not a MetaGraphError.
C34_Witness ==
    /\ publish.platform = "instagram"
    /\ publish.pc = "responded"
    /\ Len(publish.calls) = 3
    /\ publish.calls[2] = [op |-> "poll", result |-> "FINISHED"]
    /\ publish.calls[3] = [op |-> "publish", result |-> "Exception"]
    /\ publish.response = Response(FALSE, "failed", NONE, NONE)

(***************************************************************************)
(* The caller's modalities.                                                *)
(***************************************************************************)
\* The modalities whose keywords a text mentions, both when it mentions
\* none.
ModalitiesByKeywords(x) ==
    LET found == { m \in {"audio", "image", "video"} :
                     MentionsAny(CASE m = "audio" -> AudioKeywords
                                   [] m = "image" -> ImageKeywords
                                   [] m = "video" -> VideoKeywords, x) }
    IN  IF found = {} THEN {"audio", "image"} ELSE found

C36_EmptyResponseRetriedToTheEnd ==
    \A s \in Stages :
      outcome[s].error = EmptyResponseError(s) =>
        LET c == ClassifyError(PyStr(last_error[s]), Context(s)) IN
          /\ last_error[s] = EmptyResponseError(s)
          /\ c.error_type = "generation" /\ c.is_retryable /\ c.retry_delay_seconds = 2
          /\ Count(log[s], "classify_stop") = 0
          /\ Count(log[s], "worker_ok") = 0
          /\ pc[s] = "sleep" => Sleeps(s) = WorkerCalls(s) - 1 /\ WorkerCalls(s) < max_retries
          /\ pc[s] \in {"returned", "done"} =>
               /\ result[s].status = "failed"
               /\ result[s].error_type = "generation"
               /\ WorkerCalls(s) = max_retries
               /\ Sleeps(s) = max_retries - 1
               /\ ClassifierCalls(s) = max_retries

\* With max_retries 3, the audio stage has reported failed after three
\* empty responses and two delays.
C36_Witness ==
    /\ max_retries = 3
    /\ pc["audio"] = "returned"
    /\ result["audio"].status = "failed"
    /\ outcome["audio"].error = EmptyResponseError("audio")
    /\ WorkerCalls("audio") = 3
    /\ Sleeps("audio") = 2

(***************************************************************************)
(* Detection by substring, stripping by whole word.                        *)
(***************************************************************************)
\* The keyword stands in x as a word of its own: no letter, digit or
\* underscore next to it on either side.
WholeWord(kw, x) ==
    LET lowered == Lower(x) IN
      \E i \in 1..(Len(x) - Len(kw) + 1) :
        /\ SubSeq(lowered, i, i + Len(kw) - 1) = kw
        /\ (i = 1 \/ ~IsWordChar(x[i - 1]))
        /\ (i + Len(kw) > Len(x) \/ ~IsWordChar(x[i + Len(kw)]))

\* x with every run of white space turned into one space and none left at
\* either end.
Squeeze(x) ==
    LET kept(i) == \/ ~IsSpace(x[i])
                   \/ /\ i > 1 /\ ~IsSpace(x[i - 1])
                      /\ \E j \in (i + 1)..Len(x) : ~IsSpace(x[j])
        idx == SelectSeq([i \in 1..Len(x) |-> i], kept)
    IN  [k \in 1..Len(idx) |-> IF IsSpace(x[idx[k]]) THEN " " ELSE x[idx[k]]]

\* C37: detection is by substring, stripping by whole word. For an input
\* that mentions keywords only inside larger words (no keyword stands as a
\* word of its own), every modality whose keyword it mentions is in the
\* result, and the prompt is the input with its white space collapsed and
\* nothing else changed.
C37_SubstringDetectedNotStripped ==
    \A n \in 1..Parses :
        LET x == ParseInput(n) IN
          ( /\ MentionsAny(StripKeywords, x)
            /\ \A k \in 1..Len(StripKeywords) : ~WholeWord(StripKeywords[k], x) ) =>
              /\ MentionsAny(AudioKeywords, x) =>
                   "audio" \in ModalitySet(call.outputs[n].requested_modalities)
              /\ MentionsAny(ImageKeywords, x) =>
                   "image" \in ModalitySet(call.outputs[n].requested_modalities)
              /\ MentionsAny(VideoKeywords, x) =>
                   "video" \in ModalitySet(call.outputs[n].requested_modalities)
              /\ call.outputs[n].prompt = Squeeze(x)

\* "party time!" has been parsed: "art" inside "party" made it an image
\* request and the prompt came back as it was.
C37_Witness ==
    /\ Parses >= 1
    /\ call.args.user_input = <<"p","a","r","t","y"," ","t","i","m","e","!">>
    /\ ~WholeWord(<<"a","r","t">>, call.args.user_input)
    /\ call.outputs[1].requested_modalities = <<"image">>
    /\ call.outputs[1].prompt = call.args.user_input

(***************************************************************************)
(* No attempt allowed.                                                     *)
(***************************************************************************)
\* C38: with max_retries <= 0 the runner never invokes the worker: the loop
\* is not entered and the classifier between attempts is never called; the
\* one classification, after the loop, is of the text "None" (last_error is
\* still None), and the runner, once called (the required field is there)
\* and returned, has returned status failed with error "None".
C38_NoAttemptWhenMaxRetriesNotPositive ==
    \A s \in Stages :
      (max_retries <= 0 /\ pc[s] \notin {"idle", "invalid"}) =>
        /\ WorkerCalls(s) = 0
        /\ outcome[s] = NoOutcome
        /\ attempt[s] = 0
        /\ last_error[s] = NoneVal
        /\ Sleeps(s) = 0
        /\ Count(log[s], "classify_retry") + Count(log[s], "classify_stop") = 0
        /\ (pc[s] \in {"returned", "done"} /\ ValidateRequiredFields(call.args.field)) =>
             /\ ClassifierCalls(s) = 1
             /\ result[s].status = "failed"
             /\ result[s].error = <<"N","o","n","e">>
             /\ result[s].error_type = ClassifyError(<<"N","o","n","e">>, Context(s)).error_type
             /\ result[s].suggestion = ClassifyError(<<"N","o","n","e">>, Context(s)).suggestion

\* The image stage's runner, called with max_retries 0, has returned failed
\* with error "None" without a worker call.
C38_Witness ==
    /\ max_retries = 0
    /\ pc["image"] = "returned"
    /\ log["image"] = <<"enter", "classify_final">>
    /\ result["image"].status = "failed"
    /\ result["image"].error = <<"N","o","n","e">>

====
